---- MODULE Spec2Model ----
(***************************************************************************)
(* SmartOrder AI: the /recommend pipeline of src/app (context assembly,    *)
(* hard rules, historical pattern match, scoring, parameter resolution,    *)
(* explanation assembly) as a state machine, one action per stage.         *)
(*                                                                         *)
(* Units.  Decimal inputs and results of the source are kept as integers:  *)
(*   prices and spread        cents            (0.04  -> 4)                *)
(*   intraday_vol             thousandths      (0.015 -> 15)               *)
(*   participation            thousandths      (0.10  -> 100)              *)
(*   scores                   half points      (1.5   -> 3)                *)
(*   size_vs_adv              the pair of ints [num |-> n, den |-> d]      *)
(*   wall clock               half minutes since midnight (16:00 -> 1920)  *)
(* The liquidity score is the binary float the source computes.  Where     *)
(* the source rounds, truncates or compares a float, the model follows the *)
(* exact value and falls back on the float arithmetic whenever the exact   *)
(* value lies on the tie or the threshold, where the two can differ.       *)
(***************************************************************************)
EXTENDS Integers, Sequences, FiniteSets, TLC

None == "None"

Min(a, b) == IF a <= b THEN a ELSE b
Max(a, b) == IF a >= b THEN a ELSE b

(***************************************************************************)
(* Binary floating point: the arithmetic of Python's float (IEEE 754       *)
(* binary64, round to nearest, ties to even).  A natural number of any     *)
(* size is a sequence of 13-bit limbs, least significant first, without    *)
(* leading zero limbs; a float is [neg, m, e] with value (-1)^neg * m *    *)
(* 2^e, where m is zero or has exactly 53 bits.  Infinities, NaN and       *)
(* subnormal numbers are outside the values the program computes.          *)
(***************************************************************************)
LimbBase == 2^13

RECURSIVE BigOfInt(_)
BigOfInt(n) == IF n = 0 THEN <<>> ELSE <<n % LimbBase>> \o BigOfInt(n \div LimbBase)

RECURSIVE BigToInt(_)
BigToInt(a) == IF a = <<>> THEN 0 ELSE a[1] + LimbBase * BigToInt(Tail(a))

Limb(a, i) == IF i <= Len(a) THEN a[i] ELSE 0

RECURSIVE BigTrim(_)
BigTrim(a) ==
    IF a # <<>> /\ a[Len(a)] = 0 THEN BigTrim(SubSeq(a, 1, Len(a) - 1)) ELSE a

\* limbs that may exceed the base, brought back below it
RECURSIVE BigCarry(_, _)
BigCarry(a, c) ==
    IF a = <<>> THEN BigOfInt(c)
    ELSE <<(a[1] + c) % LimbBase>> \o BigCarry(Tail(a), (a[1] + c) \div LimbBase)

BigAdd(a, b) ==
    BigCarry([i \in 1..Max(Len(a), Len(b)) |-> Limb(a, i) + Limb(b, i)], 0)

\* a - b for a >= b
RECURSIVE BigBorrow(_, _, _, _)
BigBorrow(a, b, i, br) ==
    IF i > Len(a) THEN <<>>
    ELSE LET d == a[i] - Limb(b, i) - br + LimbBase
         IN  <<d % LimbBase>> \o BigBorrow(a, b, i + 1, 1 - (d \div LimbBase))

BigSub(a, b) == BigTrim(BigBorrow(a, b, 1, 0))

RECURSIVE BigCmpFrom(_, _, _)
BigCmpFrom(a, b, i) ==
    IF i = 0 THEN 0
    ELSE IF a[i] > b[i] THEN 1
    ELSE IF a[i] < b[i] THEN -1
    ELSE BigCmpFrom(a, b, i - 1)

\* -1, 0 or 1 as a < b, a = b or a > b
BigCmp(a, b) ==
    IF Len(a) > Len(b) THEN 1
    ELSE IF Len(a) < Len(b) THEN -1
    ELSE BigCmpFrom(a, b, Len(a))

RECURSIVE ConvSum(_, _, _, _)
ConvSum(a, b, k, i) ==
    IF i > Len(a) \/ i > k THEN 0
    ELSE (IF k - i + 1 <= Len(b) THEN a[i] * b[k - i + 1] ELSE 0) + ConvSum(a, b, k, i + 1)

BigMul(a, b) ==
    IF a = <<>> \/ b = <<>> THEN <<>>
    ELSE BigTrim(BigCarry([k \in 1..(Len(a) + Len(b) - 1) |-> ConvSum(a, b, k, 1)], 0))

\* a * 2^n
BigShl(a, n) ==
    IF a = <<>> THEN <<>>
    ELSE [i \in 1..(n \div 13) |-> 0]
         \o BigCarry([i \in 1..Len(a) |-> a[i] * 2^(n % 13)], 0)

\* a \div 2^n
BigShr(a, n) ==
    LET w == n \div 13
        r == n % 13
    IN  IF Len(a) <= w THEN <<>>
        ELSE BigTrim([i \in 1..(Len(a) - w) |->
                        (a[i + w] \div 2^r) + (Limb(a, i + w + 1) % 2^r) * 2^(13 - r)])

RECURSIVE BitLenInt(_)
BitLenInt(x) == IF x = 0 THEN 0 ELSE 1 + BitLenInt(x \div 2)

BigBitLen(a) == IF a = <<>> THEN 0 ELSE 13 * (Len(a) - 1) + BitLenInt(a[Len(a)])

\* a / 2^n rounded to the nearest natural, a tie to the even one
BigShrRound(a, n) ==
    IF n = 0 THEN a
    ELSE LET q == BigShr(a, n)
             c == BigCmp(BigSub(a, BigShl(q, n)), BigShl(<<1>>, n - 1))
         IN  IF c > 0 \/ (c = 0 /\ Limb(q, 1) % 2 = 1) THEN BigAdd(q, <<1>>) ELSE q

FloatZero == [neg |-> FALSE, m |-> <<>>, e |-> 0]

\* the float nearest to (-1)^neg * m * 2^e
Fl(neg, m, e) ==
    LET bl == BigBitLen(m)
    IN  IF bl = 0 THEN FloatZero
        ELSE IF bl <= 53 THEN [neg |-> neg, m |-> BigShl(m, 53 - bl), e |-> e - (53 - bl)]
        ELSE LET q == BigShrRound(m, bl - 53)
             IN  IF BigBitLen(q) > 53
                 THEN [neg |-> neg, m |-> BigShr(q, 1), e |-> e + bl - 52]
                 ELSE [neg |-> neg, m |-> q, e |-> e + bl - 53]

Abs(n) == IF n < 0 THEN -n ELSE n

\* float(n) for an int n
FloatOfInt(n) == Fl(n < 0, BigOfInt(Abs(n)), 0)

\* the next n bits of r / q for r < q < 2^30, with the remainder left
RECURSIVE DivBits(_, _, _, _)
DivBits(r, q, n, acc) ==
    IF n = 0 THEN [q |-> acc, r |-> r]
    ELSE IF 2 * r >= q THEN DivBits(2 * r - q, q, n - 1, 2 * acc + 1)
    ELSE DivBits(2 * r, q, n - 1, 2 * acc)

\* the next k limbs of r / q, least significant first
RECURSIVE DivLimbs(_, _, _)
DivLimbs(r, q, k) ==
    IF k = 0 THEN [m |-> <<>>, r |-> r]
    ELSE LET d == DivBits(r, q, 13, 0)
             rest == DivLimbs(d.r, q, k - 1)
         IN  [m |-> rest.m \o <<d.q>>, r |-> rest.r]

\* the float nearest to p / q for ints p and 0 < q < 2^30: what float(p) /
\* float(q) gives, and float("0.155") for p = 155, q = 1000.  The quotient is
\* taken to 104 binary places and a last bit records a remainder.
FloatOfRatio(p, q) ==
    LET f == DivLimbs(Abs(p) % q, q, 8)
        m == BigTrim(f.m \o BigOfInt(Abs(p) \div q))
    IN  IF f.r = 0 THEN Fl(p < 0, m, -104)
        ELSE Fl(p < 0, BigAdd(BigShl(m, 1), <<1>>), -105)

FloatNeg(x) == IF x.m = <<>> THEN x ELSE [x EXCEPT !.neg = ~x.neg]

FloatAdd(x, y) ==
    IF x.m = <<>> THEN y
    ELSE IF y.m = <<>> THEN x
    ELSE LET e == Min(x.e, y.e)
             a == BigShl(x.m, x.e - e)
             b == BigShl(y.m, y.e - e)
             c == BigCmp(a, b)
         IN  IF x.neg = y.neg THEN Fl(x.neg, BigAdd(a, b), e)
             ELSE IF c = 0 THEN FloatZero
             ELSE IF c > 0 THEN Fl(x.neg, BigSub(a, b), e)
             ELSE Fl(y.neg, BigSub(b, a), e)

FloatSub(x, y) == FloatAdd(x, FloatNeg(y))

FloatMul(x, y) == Fl(x.neg # y.neg, BigMul(x.m, y.m), x.e + y.e)

\* the next n bits of the quotient r / d for naturals r < d of any size
RECURSIVE BigDivBits(_, _, _, _)
BigDivBits(r, d, n, acc) ==
    IF n = 0 THEN [q |-> acc, r |-> r]
    ELSE LET r2 == BigShl(r, 1)
         IN  IF BigCmp(r2, d) >= 0
             THEN BigDivBits(BigSub(r2, d), d, n - 1, 2 * acc + 1)
             ELSE BigDivBits(r2, d, n - 1, 2 * acc)

\* the next k limbs of the quotient r / d, least significant first
RECURSIVE BigDivLimbs(_, _, _)
BigDivLimbs(r, d, k) ==
    IF k = 0 THEN [m |-> <<>>, r |-> r]
    ELSE LET b == BigDivBits(r, d, 13, 0)
             rest == BigDivLimbs(b.r, d, k - 1)
         IN  [m |-> rest.m \o <<b.q>>, r |-> rest.r]

\* x / y for y # 0: the quotient of the mantissas to 65 binary places, a last
\* bit recording a remainder
FloatDiv(x, y) ==
    IF x.m = <<>> THEN FloatZero
    ELSE LET first == BigCmp(x.m, y.m) >= 0
             d == BigDivLimbs(IF first THEN BigSub(x.m, y.m) ELSE x.m, y.m, 5)
             q == BigTrim(d.m \o (IF first THEN <<1>> ELSE <<>>))
         IN  IF d.r = <<>> THEN Fl(x.neg # y.neg, q, x.e - y.e - 65)
             ELSE Fl(x.neg # y.neg, BigAdd(BigShl(q, 1), <<1>>), x.e - y.e - 66)

\* -1, 0 or 1 as x < y, x = y or x > y
FloatCmp(x, y) ==
    LET mag == IF x.m = <<>> THEN (IF y.m = <<>> THEN 0 ELSE -1)
               ELSE IF y.m = <<>> THEN 1
               ELSE IF x.e > y.e THEN 1
               ELSE IF x.e < y.e THEN -1
               ELSE BigCmp(x.m, y.m)
    IN  IF x.neg /\ ~y.neg THEN -1
        ELSE IF ~x.neg /\ y.neg THEN 1
        ELSE IF x.neg THEN -mag ELSE mag

\* Python's min(x, y) and max(x, y): the first argument unless the second is
\* strictly smaller (larger)
FloatMin(x, y) == IF FloatCmp(y, x) < 0 THEN y ELSE x
FloatMax(x, y) == IF FloatCmp(y, x) > 0 THEN y ELSE x

\* round(x, ndigits) in units of 10^-ndigits (scale = 10^ndigits): the exact
\* value of the float, rounded half to even
PyRound(x, scale) ==
    LET a == BigMul(x.m, BigOfInt(scale))
        n == BigToInt(IF x.e >= 0 THEN BigShl(a, x.e) ELSE BigShrRound(a, -x.e))
    IN  IF x.neg THEN -n ELSE n

\* int(x): truncation toward zero
PyInt(x) ==
    LET n == BigToInt(IF x.e >= 0 THEN BigShl(x.m, x.e) ELSE BigShr(x.m, -x.e))
    IN  IF x.neg THEN -n ELSE n

\* the float literals of the source
Lit_0_01 == FloatOfRatio(1, 100)
Lit_0_02 == FloatOfRatio(2, 100)
Lit_0_03 == FloatOfRatio(3, 100)
Lit_0_05 == FloatOfRatio(5, 100)
Lit_0_10 == FloatOfRatio(10, 100)
Lit_0_25 == FloatOfRatio(25, 100)
Lit_0_30 == FloatOfRatio(30, 100)
Lit_0_4 == FloatOfRatio(4, 10)
Lit_0_6 == FloatOfRatio(6, 10)
Lit_0_7 == FloatOfRatio(7, 10)
Lit_0_8 == FloatOfRatio(8, 10)
Lit_1_2 == FloatOfRatio(12, 10)
Lit_2 == FloatOfInt(2)
Lit_3 == FloatOfInt(3)
Lit_100 == FloatOfInt(100)

(***************************************************************************)
(* Optional numbers (Optional[float] / Optional[int]) and the optional     *)
(* notes of a request (Optional[str]) are <<>> or <<v>>.                   *)
(***************************************************************************)
Nothing == <<>>
Some(v) == <<v>>
IsSome(o) == Len(o) = 1
Val(o) == o[1]

(***************************************************************************)
(* Strings: Python's `pat in text` and str.lower()                         *)
(***************************************************************************)
Contains(text, pat) ==
    \E i \in 1..(Len(text) - Len(pat) + 1) : SubSeq(text, i, i + Len(pat) - 1) = pat

LowerChar(c) ==
    CASE c = "A" -> "a" [] c = "B" -> "b" [] c = "C" -> "c" [] c = "D" -> "d"
      [] c = "E" -> "e" [] c = "F" -> "f" [] c = "G" -> "g" [] c = "H" -> "h"
      [] c = "I" -> "i" [] c = "J" -> "j" [] c = "K" -> "k" [] c = "L" -> "l"
      [] c = "M" -> "m" [] c = "N" -> "n" [] c = "O" -> "o" [] c = "P" -> "p"
      [] c = "Q" -> "q" [] c = "R" -> "r" [] c = "S" -> "s" [] c = "T" -> "t"
      [] c = "U" -> "u" [] c = "V" -> "v" [] c = "W" -> "w" [] c = "X" -> "x"
      [] c = "Y" -> "y" [] c = "Z" -> "z" [] OTHER -> c

RECURSIVE LowerFrom(_, _)
LowerFrom(s, i) ==
    IF i > Len(s) THEN "" ELSE LowerChar(SubSeq(s, i, i)) \o LowerFrom(s, i + 1)

\* str.lower()
lower(s) == LowerFrom(s, 1)

\* (notes or ""): None and the empty string both give the empty string
or_empty(notes) == IF IsSome(notes) THEN Val(notes) ELSE ""

(***************************************************************************)
(* context_builder.py: notes flags and intents                             *)
(***************************************************************************)
parse_notes_flags(notes) ==
    LET text == lower(or_empty(notes))
    IN  [vwap      |-> Contains(text, "vwap"),
         urgent    |-> Contains(text, "urgent"),
         close     |-> Contains(text, "close"),
         benchmark |-> Contains(text, "benchmark")]

\* benchmark_type: the ARRIVAL test runs after the VWAP test and overwrites it
benchmark_type_of(text) ==
    LET b1 == IF \/ Contains(text, "vwap benchmark")
                 \/ Contains(text, "benchmark: vwap")
                 \/ Contains(text, "vwap ")
              THEN "VWAP" ELSE None
    IN  IF \/ Contains(text, "benchmark: arrival price")
           \/ Contains(text, "arrival price")
        THEN "ARRIVAL" ELSE b1

\* the if / elif chain of the "Urgency / completion" block
urgency_intent_of(text) ==
    IF Contains(text, "eod compliance required") \/ Contains(text, "must complete by close")
    THEN "HIGH"
    ELSE IF Contains(text, "must complete") THEN "HIGH"
    ELSE IF Contains(text, "urgent") THEN "HIGH"
    ELSE IF Contains(text, "steady execution") THEN "MEDIUM"
    ELSE None

completion_required_of(text) ==
    \/ Contains(text, "eod compliance required")
    \/ Contains(text, "must complete by close")
    \/ Contains(text, "must complete")

market_impact_sensitive_of(text) ==
    Contains(text, "minimize market impact") \/ Contains(text, "minimise market impact")

\* "steady execution" overwrites what the impact phrase set
aggression_preference_of_last_wins(text) ==
    IF Contains(text, "steady execution") THEN "MEDIUM"
    ELSE IF market_impact_sensitive_of(text) THEN "LOW"
    ELSE None

\* mutant: an "urgent" note is read as a HIGH aggression preference
aggression_preference_of_urgent_high(text) ==
    IF Contains(text, "urgent") THEN "HIGH"
    ELSE IF market_impact_sensitive_of(text) THEN "LOW"
    ELSE IF Contains(text, "steady execution") THEN "MEDIUM"
    ELSE None

\* "steady execution" sets MEDIUM only when the impact phrase has not set LOW
aggression_preference_of(text) ==
    LET a1 == IF market_impact_sensitive_of(text) THEN "LOW" ELSE None
    IN  IF Contains(text, "steady execution")
        THEN (IF a1 # None THEN a1 ELSE "MEDIUM")
        ELSE a1

parse_notes_intents(notes) ==
    LET text == lower(or_empty(notes))
    IN  [urgency_intent          |-> urgency_intent_of(text),
         benchmark_type          |-> benchmark_type_of(text),
         aggression_preference   |-> aggression_preference_of(text),
         completion_required     |-> completion_required_of(text),
         market_impact_sensitive |-> market_impact_sensitive_of(text)]

(***************************************************************************)
(* data_loader.py: the CSV files of data/, the frames read from them and   *)
(* the accessors.  A lookup returns the first matching row, or NoRow, or   *)
(* raises KeyError on a frame without columns.                             *)
(***************************************************************************)
NoRow == [found |-> FALSE]

\* utils.py: the file names
CLIENTS_CSV == "clients.csv"
INSTRUMENTS_CSV == "instruments.csv"
HISTORICAL_ORDERS_CSV == "historical_orders.csv"
MARKET_SNAPSHOT_CSV == "market_snapshot.csv"

\* a file of data/: absent, or present with a header line and its rows
NoFile == [exists |-> FALSE]
File(rows) == [exists |-> TRUE, rows |-> rows]

\* a DataFrame: its rows, and whether it has its columns; pd.DataFrame() has
\* neither rows nor columns
Frame(rows) == [columns |-> TRUE, rows |-> rows]
EmptyFrame == [columns |-> FALSE, rows |-> <<>>]

\* df.empty
empty(df) == ~df.columns \/ df.rows = <<>>

\* an exception on its way out of the pipeline
KeyError(column) == [raised |-> "KeyError", detail |-> "'" \o column \o "'"]
Raised(x) == "raised" \in DOMAIN x

ClientsTable ==
    << [found |-> TRUE, client_id |-> "CLT001", urgency_profile |-> "Low",
        preferred_algo |-> "VWAP", aggression_bias |-> "Low", participation_pref |-> 20],
       [found |-> TRUE, client_id |-> "CLT002", urgency_profile |-> "High",
        preferred_algo |-> "POV", aggression_bias |-> "High", participation_pref |-> 500] >>

InstrumentsTable ==
    << [found |-> TRUE, symbol |-> "AAA", adv |-> 1000000,
        volatility_bucket |-> "Low", liquidity_bucket |-> "High"],
       [found |-> TRUE, symbol |-> "BBB", adv |-> 200000,
        volatility_bucket |-> "High", liquidity_bucket |-> "Low"] >>

MarketSnapshotTable ==
    << [found |-> TRUE, symbol |-> "AAA", spread |-> 4, intraday_vol |-> 5,
        last_trade_size |-> 800, bid |-> 10000, ask |-> 10004, ltp |-> 10002],
       [found |-> TRUE, symbol |-> "CCC", spread |-> 17, intraday_vol |-> 30,
        last_trade_size |-> 50, bid |-> 2000, ask |-> 2017, ltp |-> 2010] >>

HistoricalOrdersTable ==
    << [client_id |-> "CLT001", symbol |-> "AAA", size_bucket |-> "small",
        volatility_bucket |-> "Low", algo_used |-> "POV", aggression_level |-> "High"],
       [client_id |-> "CLT001", symbol |-> "AAA", size_bucket |-> "small",
        volatility_bucket |-> "Low", algo_used |-> "POV", aggression_level |-> "Low"],
       [client_id |-> "CLT001", symbol |-> "AAA", size_bucket |-> "small",
        volatility_bucket |-> "Low", algo_used |-> "VWAP", aggression_level |-> "Low"],
       [client_id |-> "CLT001", symbol |-> "AAA", size_bucket |-> "medium",
        volatility_bucket |-> "Low", algo_used |-> "TWAP", aggression_level |-> "Medium"],
       [client_id |-> "CLT001", symbol |-> "BBB", size_bucket |-> "large",
        volatility_bucket |-> "Medium", algo_used |-> "ICEBERG", aggression_level |-> "Low"],
       [client_id |-> "CLT001", symbol |-> "BBB", size_bucket |-> "large",
        volatility_bucket |-> "Medium", algo_used |-> "VWAP", aggression_level |-> "Low"],
       [client_id |-> "CLT002", symbol |-> "CCC", size_bucket |-> "large",
        volatility_bucket |-> "High", algo_used |-> "ICEBERG", aggression_level |-> "Medium"],
       [client_id |-> "CLT002", symbol |-> "CCC", size_bucket |-> "large",
        volatility_bucket |-> "High", algo_used |-> "", aggression_level |-> ""] >>

\* _load_csv: the empty frame if the file is missing, else the file's rows;
\* files maps each file name to the file
load_csv(name, files) ==
    IF ~files[name].exists THEN EmptyFrame ELSE Frame(files[name].rows)

load_all_data(files) ==
    [clients           |-> load_csv(CLIENTS_CSV, files),
     instruments       |-> load_csv(INSTRUMENTS_CSV, files),
     historical_orders |-> load_csv(HISTORICAL_ORDERS_CSV, files),
     market_snapshot   |-> load_csv(MARKET_SNAPSHOT_CSV, files)]

\* df[(df[k1] == v1) & (df[k2] == v2) ...]: the rows whose columns equal the
\* wanted values, in table order; want is a record column |-> value
RECURSIVE Filter(_, _, _)
Filter(rows, want, i) ==
    IF i > Len(rows) THEN <<>>
    ELSE (IF \A k \in DOMAIN want : rows[i][k] = want[k] THEN <<rows[i]>> ELSE <<>>)
         \o Filter(rows, want, i + 1)

\* an empty frame is read again from its file; df[column] raises KeyError on
\* a frame without columns
first_or_none(row) == IF row = <<>> THEN NoRow ELSE row[1]

\* df[df[column] == value], first row: KeyError on a frame without columns
lookup(df, column, want) ==
    IF ~df.columns THEN KeyError(column) ELSE first_or_none(Filter(df.rows, want, 1))

\* the frame of data, read again from its file when it is empty
frame_or_file(df, name, files) == IF empty(df) THEN load_csv(name, files) ELSE df

get_client_profile(client_id, d, files) ==
    lookup(frame_or_file(d.clients, CLIENTS_CSV, files), "client_id",
           [client_id |-> client_id])

get_instrument_profile(symbol, d, files) ==
    lookup(frame_or_file(d.instruments, INSTRUMENTS_CSV, files), "symbol",
           [symbol |-> symbol])

get_market_snapshot(symbol, d, files) ==
    lookup(frame_or_file(d.market_snapshot, MARKET_SNAPSHOT_CSV, files), "symbol",
           [symbol |-> symbol])

\* data holds the key "historical_orders" whenever load_all_data built it
get_historical_data(d) == d.historical_orders

(***************************************************************************)
(* context_builder.py: derived features                                    *)
(***************************************************************************)
\* order_size / adv is kept as the pair of its two ints; the float the source
\* holds is float_of_frac of it, and its comparisons with 0.05, 0.10, 0.20 and
\* 0.25 come out as the comparisons of the exact fractions
Frac(n, d) == [num |-> n, den |-> d]
float_of_frac(f) == FloatOfRatio(f.num, f.den)
FracGt(f, n, d) == f.num * d > n * f.den
FracLt(f, n, d) == f.num * d < n * f.den

urgency_from_time_to_close(minutes_to_close) ==
    IF minutes_to_close < 15 THEN "High"
    ELSE IF minutes_to_close < 60 THEN "Medium"
    ELSE "Low"

\* the 16:00 close in half minutes since midnight
CloseHalfMinutes == 1920

\* max(0, int((close - now) / 60 s)) for a clock reading `now` in half minutes
system_minutes_to_close(now) ==
    IF now >= CloseHalfMinutes THEN 0 ELSE Max(0, (CloseHalfMinutes - now) \div 2)

\* intraday volatility in thousandths: <= 0.01 Low, <= 0.02 Medium, else High
volatility_bucket_from_intraday(vol) ==
    IF vol <= 10 THEN "Low"
    ELSE IF vol <= 20 THEN "Medium"
    ELSE "High"

\* (adv / 1e6 * 0.6 + avg_trade_size / 1000.0 * 0.4) / max(spread, 0.01) in
\* float arithmetic; spread comes in cents
liquidity_score_float(adv, spread, avg_trade_size) ==
    LET adv_norm == FloatOfRatio(adv, 1000000)
        spread_penalty == FloatMax(FloatOfRatio(spread, 100), Lit_0_01)
        trade_norm == FloatOfRatio(avg_trade_size, 1000)
    IN  FloatDiv(FloatAdd(FloatMul(adv_norm, Lit_0_6), FloatMul(trade_norm, Lit_0_4)),
                 spread_penalty)

\* the ADVs, spreads and trade sizes of the reference tables and of their
\* defaults; their scores are computed once
TableLiquidityInputs ==
    ({1} \cup {InstrumentsTable[i].adv : i \in 1..Len(InstrumentsTable)})
    \X ({0} \cup {MarketSnapshotTable[i].spread : i \in 1..Len(MarketSnapshotTable)})
    \X ({500} \cup {MarketSnapshotTable[i].last_trade_size :
                       i \in 1..Len(MarketSnapshotTable)})

\* the pairs <<inputs, score>> of those inputs
TableLiquidityScores ==
    {<<k, liquidity_score_float(k[1], k[2], k[3])>> : k \in TableLiquidityInputs}

\* _liquidity_score: the float, looked up for the inputs of the tables
liquidity_score_of(adv, spread, avg_trade_size) ==
    IF <<adv, spread, avg_trade_size>> \in TableLiquidityInputs
    THEN (CHOOSE p \in TableLiquidityScores : p[1] = <<adv, spread, avg_trade_size>>)[2]
    ELSE liquidity_score_float(adv, spread, avg_trade_size)

\* bucket_ratio of _historical_size_tolerance, in hundredths; 0 marks "no ratio" (NaN)
bucket_ratio(size_bucket) ==
    CASE size_bucket = "small"  -> 2
      [] size_bucket = "medium" -> 10
      [] size_bucket = "large"  -> 30
      [] OTHER -> 0

RECURSIVE InsertSorted(_, _)
InsertSorted(x, s) ==
    IF s = <<>> THEN <<x>>
    ELSE IF x <= Head(s) THEN <<x>> \o s
    ELSE <<Head(s)>> \o InsertSorted(x, Tail(s))

RECURSIVE SortAsc(_)
SortAsc(s) == IF s = <<>> THEN <<>> ELSE InsertSorted(Head(s), SortAsc(Tail(s)))

\* pandas Series.median(), doubled so that it stays an integer
MedianTimes2(s) ==
    LET t == SortAsc(s)
        n == Len(t)
    IN  IF n % 2 = 1 THEN 2 * t[(n + 1) \div 2] ELSE t[n \div 2] + t[n \div 2 + 1]

\* the float of Series.median() for ratios given in hundredths: the middle
\* value, or the mean of the two middle values
median_float(s) ==
    LET t == SortAsc(s)
        n == Len(t)
    IN  IF n % 2 = 1 THEN FloatOfRatio(t[(n + 1) \div 2], 100)
        ELSE FloatDiv(FloatAdd(FloatOfRatio(t[n \div 2], 100),
                               FloatOfRatio(t[n \div 2 + 1], 100)), Lit_2)

RECURSIVE RatiosOf(_, _)
RatiosOf(rows, i) ==
    IF i > Len(rows) THEN <<>>
    ELSE (IF bucket_ratio(rows[i].size_bucket) = 0 THEN <<>>
          ELSE <<bucket_ratio(rows[i].size_bucket)>>) \o RatiosOf(rows, i + 1)

\* historical_tolerance_ratio is kept in two-hundredths: 3 * 2 * median.
\* size_vs_adv > tolerance compares two floats; they order as the exact values
\* do unless these are equal, where the float arithmetic decides
historical_size_tolerance(client_id, symbol, size_vs_adv, d) ==
    LET hist == get_historical_data(d)
        s1 == Filter(hist.rows, [client_id |-> client_id, symbol |-> symbol], 1)
        subset == IF s1 = <<>> THEN Filter(hist.rows, [client_id |-> client_id], 1) ELSE s1
        ratios == RatiosOf(subset, 1)
        tolerance == 3 * MedianTimes2(ratios)
    IN  IF empty(hist) \/ subset = <<>> \/ ratios = <<>>
        THEN [fat_finger_flag |-> FALSE, historical_tolerance_ratio |-> Nothing]
        ELSE [fat_finger_flag |->
                 IF size_vs_adv.num * 200 = tolerance * size_vs_adv.den
                 THEN FloatCmp(float_of_frac(size_vs_adv),
                               FloatMul(median_float(ratios), Lit_3)) > 0
                 ELSE FracGt(size_vs_adv, tolerance, 200),
              historical_tolerance_ratio |-> Some(tolerance)]

\* the four branches that reconcile request and system time-to-close
effective_time_to_close_of(req, sys) ==
    IF sys <= 0 /\ req > 0 THEN req
    ELSE IF req <= 0 /\ sys > 0 THEN sys
    ELSE IF req > 0 /\ sys > 0 THEN Min(req, sys)
    ELSE 0

\* a MEDIUM notes intent replaces the base urgency whatever it is
urgency_level_of_medium_replaces(effective_ttc, urgency_intent) ==
    LET base == urgency_from_time_to_close(effective_ttc)
    IN  IF urgency_intent = "HIGH" THEN "High"
        ELSE IF urgency_intent = "MEDIUM" THEN "Medium"
        ELSE base

\* base urgency from time-to-close, then raised by the notes intent
urgency_level_of(effective_ttc, urgency_intent) ==
    LET base == urgency_from_time_to_close(effective_ttc)
    IN  IF urgency_intent = "HIGH" THEN "High"
        ELSE IF urgency_intent = "MEDIUM" /\ base = "Low" THEN "Medium"
        ELSE base

\* float(instrument["adv"]) if instrument else 1.0
adv_of(instrument) == IF instrument.found THEN instrument.adv ELSE 1

\* build_context after its three lookups returned client, instrument, market
context_of(request, d, now, client, instrument, market) ==
    LET adv == adv_of(instrument)
        size_vs_adv == IF adv # 0 THEN Frac(request.order_size, adv) ELSE Frac(0, 1)
        spread == IF market.found THEN market.spread ELSE 0
        intraday_vol == IF market.found THEN market.intraday_vol ELSE 15
        avg_trade_size == IF market.found THEN market.last_trade_size ELSE 500
        time_to_close_req == request.time_to_close
        time_to_close_sys == system_minutes_to_close(now)
        effective == effective_time_to_close_of(time_to_close_req, time_to_close_sys)
        notes_intents == parse_notes_intents(request.notes)
        tol == historical_size_tolerance(request.client_id, request.symbol, size_vs_adv, d)
    IN  [request                      |-> request,
         client_profile               |-> client,
         instrument_profile           |-> instrument,
         market_snapshot              |-> market,
         size_vs_adv                  |-> size_vs_adv,
         adv                          |-> adv,
         volatility_bucket_instrument |-> IF instrument.found THEN instrument.volatility_bucket
                                          ELSE "Medium",
         volatility_bucket            |-> volatility_bucket_from_intraday(intraday_vol),
         intraday_vol                 |-> intraday_vol,
         liquidity_bucket             |-> IF instrument.found THEN instrument.liquidity_bucket
                                          ELSE "Medium",
         liquidity_score              |-> liquidity_score_of(adv, spread, avg_trade_size),
         spread                       |-> spread,
         bid                          |-> IF market.found THEN Some(market.bid) ELSE Nothing,
         ask                          |-> IF market.found THEN Some(market.ask) ELSE Nothing,
         ltp                          |-> IF market.found THEN Some(market.ltp) ELSE Nothing,
         time_to_close_request        |-> time_to_close_req,
         time_to_close_system         |-> time_to_close_sys,
         effective_time_to_close      |-> effective,
         urgency_level                |-> urgency_level_of(effective, notes_intents.urgency_intent),
         notes_flags                  |-> parse_notes_flags(request.notes),
         notes_intents                |-> notes_intents,
         fat_finger_flag              |-> tol.fat_finger_flag,
         historical_tolerance_ratio   |-> tol.historical_tolerance_ratio]

\* the exception of the first lookup that raised, else the context
context_or_raised(request, d, now, client, instrument, market) ==
    IF Raised(client) THEN client
    ELSE IF Raised(instrument) THEN instrument
    ELSE IF Raised(market) THEN market
    ELSE context_of(request, d, now, client, instrument, market)

\* build_context(request, data); `now` is the reading datetime.now() returns
\* and files the data/ directory.  An exception raised by a lookup leaves
\* build_context as its result
build_context(request, d, files, now) ==
    context_or_raised(request, d, now,
                      get_client_profile(request.client_id, d, files),
                      get_instrument_profile(request.symbol, d, files),
                      get_market_snapshot(request.symbol, d, files))

(***************************************************************************)
(* rule_engine.py: apply_rules, six rules in a fixed order                 *)
(***************************************************************************)
\* mutant: rule 1 reads the parsed intent only and forgets the keyword flag
Rule1_intent_only(ctx) == ctx.notes_intents.benchmark_type = "VWAP"

\* rule 1: VWAP benchmark (flag or intent)
Rule1(ctx) == ctx.notes_flags.vwap \/ ctx.notes_intents.benchmark_type = "VWAP"
\* rule 2: completion required
Rule2(ctx) == ctx.notes_intents.completion_required
\* mutant: the threshold taken as 25 (a percentage) against the ratio
Rule4_percent_threshold(ctx) == FracGt(ctx.size_vs_adv, 25, 1)

\* mutant: the rule fires only above the whole ADV
Rule4_above_whole_adv(ctx) == FracGt(ctx.size_vs_adv, 1, 1)

\* rule 4: order > 25% ADV
Rule4(ctx) == FracGt(ctx.size_vs_adv, 25, 100)
\* rule 5: impact-sensitive notes in low liquidity
Rule5(ctx) == ctx.notes_intents.market_impact_sensitive /\ ctx.liquidity_bucket = "Low"

\* mutant: rule 2 sets POV without looking whether rule 1 already set the algo
rule_algo_of_completion_overrides(ctx) ==
    LET a1 == IF Rule1(ctx) THEN "VWAP" ELSE None
        a2 == IF Rule2(ctx) THEN "POV" ELSE a1
    IN  IF ctx.urgency_level = "High" /\ a2 = None THEN "POV" ELSE a2

\* mutant: the end-of-day default to POV (rule 6) is left out
rule_algo_of_without_eod_default(ctx) ==
    LET a1 == IF Rule1(ctx) THEN "VWAP" ELSE None
    IN  IF Rule2(ctx) /\ a1 = None THEN "POV" ELSE a1

rule_algo_of(ctx) ==
    LET a1 == IF Rule1(ctx) THEN "VWAP" ELSE None
        a2 == IF Rule2(ctx) /\ a1 = None THEN "POV" ELSE a1
    IN  IF ctx.urgency_level = "High" /\ a2 = None THEN "POV" ELSE a2

rule_aggression_of(ctx) ==
    LET g2 == IF Rule2(ctx) THEN "High" ELSE None
    IN  IF ctx.urgency_level = "High" /\ g2 = None THEN "High" ELSE g2

rule_order_type_of(ctx) ==
    LET o4 == IF Rule4(ctx) THEN "Limit" ELSE None
    IN  IF Rule5(ctx) THEN "Limit" ELSE o4

rule_reasons_of(ctx) ==
    (IF Rule1(ctx) THEN <<"Notes specify VWAP benchmark; algo forced to VWAP">> ELSE <<>>)
    \o (IF Rule2(ctx) /\ ~Rule1(ctx)
        THEN <<"Order must complete by close; algo forced to POV">> ELSE <<>>)
    \o (IF Rule2(ctx)
        THEN <<"Completion requirement: aggression forced to High">> ELSE <<>>)
    \o (IF ctx.urgency_level = "High" /\ ~Rule2(ctx)
        THEN <<"High urgency from time-to-close; aggression set to High">> ELSE <<>>)
    \o (IF Rule4(ctx)
        THEN <<"Order size > 25% ADV; avoiding Market order (using Limit)">> ELSE <<>>)
    \o (IF Rule5(ctx)
        THEN <<"Impact-sensitive in low liquidity; Market orders disallowed (Limit only)">>
        ELSE <<>>)
    \o (IF ctx.urgency_level = "High" /\ ~Rule1(ctx) /\ ~Rule2(ctx)
        THEN <<"End-of-day urgency; defaulting to POV">> ELSE <<>>)

apply_rules(ctx) ==
    [algo       |-> rule_algo_of(ctx),
     aggression |-> rule_aggression_of(ctx),
     order_type |-> rule_order_type_of(ctx),
     reasons    |-> rule_reasons_of(ctx)]

(***************************************************************************)
(* pattern_engine.py: match_historical                                     *)
(***************************************************************************)
\* small < 5% of ADV, medium < 20%, else large
size_bucket(size_vs_adv) ==
    IF FracLt(size_vs_adv, 5, 100) THEN "small"
    ELSE IF FracLt(size_vs_adv, 20, 100) THEN "medium"
    ELSE "large"

CountOf(vals, v) == Cardinality({i \in 1..Len(vals) : vals[i] = v})

\* value_counts().index[0] if the counts are not empty, else None.
\* value_counts leaves the missing cells out (a blank cell of the file, ""),
\* and lists the counts in descending order; pandas does not fix the order of
\* equal counts, so each of the most frequent values is a possible result
ModeOutcomes(vals) ==
    LET present == {vals[i] : i \in 1..Len(vals)} \ {""}
    IN  IF present = {} THEN {None}
        ELSE {v \in present : \A w \in present : CountOf(vals, w) <= CountOf(vals, v)}

\* the result for one most frequent algo and one most frequent aggression
pattern_result(preferred_algo, preferred_aggression, bucket, volatility_bucket) ==
    [algo |-> preferred_algo,
     aggression |-> preferred_aggression,
     reasons |->
       (IF preferred_algo # None
        THEN <<"Client historically prefers " \o preferred_algo \o " (size bucket="
               \o bucket \o ", vol=" \o volatility_bucket \o ")">>
        ELSE <<>>)
       \o (IF preferred_aggression # None
           THEN <<"Historical aggression for this context: " \o preferred_aggression>>
           ELSE <<>>)]

\* the results match_historical can return
match_historical(client_id, symbol, size_vs_adv, volatility_bucket, d) ==
    LET hist == get_historical_data(d)
        bucket == size_bucket(size_vs_adv)
        s1 == Filter(hist.rows, [client_id |-> client_id, size_bucket |-> bucket,
                                 volatility_bucket |-> volatility_bucket], 1)
        subset == IF s1 = <<>>
                  THEN Filter(hist.rows, [client_id |-> client_id, size_bucket |-> bucket], 1)
                  ELSE s1
    IN  IF empty(hist) \/ subset = <<>>
        THEN {[algo |-> None, aggression |-> None, reasons |-> <<>>]}
        ELSE {pattern_result(a, g, bucket, volatility_bucket) :
                a \in ModeOutcomes([i \in 1..Len(subset) |-> subset[i].algo_used]),
                g \in ModeOutcomes([i \in 1..Len(subset) |-> subset[i].aggression_level])}

(***************************************************************************)
(* scoring_engine.py / ebm_stub.py: score_algos                            *)
(***************************************************************************)
ALGOS == <<"VWAP", "POV", "ICEBERG">>
AlgoSet == {ALGOS[i] : i \in 1..Len(ALGOS)}

\* _dedupe: drop empty strings and every later duplicate, keep first-occurrence order
RECURSIVE DedupeFrom(_, _, _)
DedupeFrom(seq, i, seen) ==
    IF i > Len(seq) THEN <<>>
    ELSE IF seq[i] # "" /\ seq[i] \notin seen
         THEN <<seq[i]>> \o DedupeFrom(seq, i + 1, seen \cup {seq[i]})
         ELSE DedupeFrom(seq, i + 1, seen)

dedupe(seq) == DedupeFrom(seq, 1, {})

Bump(algo, delta, reason) == <<[algo |-> algo, delta |-> delta, reason |-> reason]>>

urgency_bumps_level_only(ctx) ==
    IF ctx.urgency_level = "High"
    THEN Bump("POV", 8, "High urgency / near close; POV favored to get done")
    ELSE IF ctx.urgency_level = "Medium"
    THEN Bump("POV", 3, "Medium urgency; light tilt toward POV")
    ELSE Bump("VWAP", 2, "Low urgency; VWAP acceptable for benchmark-style execution")

\* the urgency / time-to-close factor of the scoring table
urgency_bumps(ctx) ==
    IF ctx.urgency_level = "High" \/ ctx.effective_time_to_close <= 20
    THEN Bump("POV", 8, "High urgency / near close; POV favored to get done")
    ELSE IF ctx.urgency_level = "Medium"
    THEN Bump("POV", 3, "Medium urgency; light tilt toward POV")
    ELSE Bump("VWAP", 2, "Low urgency; VWAP acceptable for benchmark-style execution")

\* the calls of bump() in code order; delta in half points
Bumps(ctx) ==
    LET ni == ctx.notes_intents IN
    (IF FracGt(ctx.size_vs_adv, 25, 100)
     THEN Bump("VWAP", 6, "Large order vs ADV; VWAP handles size efficiently")
          \o Bump("POV", 2, "Large order; POV participation can control footprint")
     ELSE IF FracGt(ctx.size_vs_adv, 10, 100)
     THEN Bump("VWAP", 4, "Medium/large order size; VWAP suitable")
     ELSE Bump("POV", 2, "Small order size; POV remains flexible"))
    \o urgency_bumps(ctx)
    \o (IF ni.completion_required
        THEN Bump("POV", 6, "Order notes require completion by close; POV favored")
        ELSE <<>>)
    \o (IF ctx.volatility_bucket = "Low"
        THEN Bump("VWAP", 4, "Low volatility; VWAP stable and benchmark-friendly")
        ELSE IF ctx.volatility_bucket = "High"
        THEN Bump("POV", 3, "High volatility; POV can react to volume")
             \o Bump("ICEBERG", 3, "High volatility; ICEBERG can hide size")
        ELSE <<>>)
    \o (IF ctx.liquidity_bucket = "Low" \/ FloatCmp(ctx.liquidity_score, Lit_0_8) < 0
        THEN Bump("ICEBERG", 6, "Low liquidity; ICEBERG reduces market impact")
        ELSE IF ctx.liquidity_bucket = "High" /\ FloatCmp(ctx.liquidity_score, Lit_1_2) > 0
        THEN Bump("POV", 2, "High liquidity; POV can safely participate aggressively")
        ELSE <<>>)
    \o (IF ni.benchmark_type = "VWAP"
        THEN Bump("VWAP", 10, "Notes specify VWAP benchmark; VWAP strongly preferred")
        ELSE IF ni.benchmark_type = "ARRIVAL"
        THEN Bump("POV", 4,
                  "Notes reference arrival price; POV aligns with participation around arrival")
        ELSE <<>>)
    \o (IF ni.market_impact_sensitive
        THEN Bump("ICEBERG", 6, "Notes request to minimize market impact; ICEBERG favored")
             \o Bump("VWAP", 2, "Impact-sensitive; VWAP is more passive than aggressive POV")
        ELSE <<>>)
    \o (IF ni.aggression_preference = "HIGH"
        THEN Bump("POV", 4, "Notes prefer higher aggression; POV prioritized")
        ELSE IF ni.aggression_preference = "LOW"
        THEN Bump("VWAP", 3, "Low aggression preference; VWAP more passive")
             \o Bump("ICEBERG", 2, "Low aggression preference; ICEBERG hides size")
        ELSE <<>>)

RECURSIVE ScoreFrom(_, _, _)
ScoreFrom(bumps, algo, i) ==
    IF i > Len(bumps) THEN 0
    ELSE (IF bumps[i].algo = algo THEN bumps[i].delta ELSE 0) + ScoreFrom(bumps, algo, i + 1)

RECURSIVE ReasonsFrom(_, _, _)
ReasonsFrom(bumps, algo, i) ==
    IF i > Len(bumps) THEN <<>>
    ELSE (IF bumps[i].algo = algo THEN <<bumps[i].reason>> ELSE <<>>)
         \o ReasonsFrom(bumps, algo, i + 1)

scores_of(ctx) == [a \in AlgoSet |-> ScoreFrom(Bumps(ctx), a, 1)]
reasons_by_algo(ctx) == [a \in AlgoSet |-> ReasonsFrom(Bumps(ctx), a, 1)]

\* ebm_stub.py: the adjustment seam; returns a copy of the scores and no reasons
ebm_adjust_algo_scores(ctx, base_scores) == [scores |-> base_scores, reasons |-> <<>>]

best_algo_of_last_max(scores_) ==
    LET i == CHOOSE k \in 1..Len(ALGOS) :
                 /\ \A j \in 1..Len(ALGOS) : scores_[ALGOS[j]] <= scores_[ALGOS[k]]
                 /\ \A j \in (k + 1)..Len(ALGOS) : scores_[ALGOS[j]] < scores_[ALGOS[k]]
    IN  ALGOS[i]

\* max(ALGOS, key=scores): the first candidate in ALGOS order with the maximal score
best_algo_of(scores) ==
    LET i == CHOOSE k \in 1..Len(ALGOS) :
                 /\ \A j \in 1..Len(ALGOS) : scores[ALGOS[j]] <= scores[ALGOS[k]]
                 /\ \A j \in 1..(k - 1) : scores[ALGOS[j]] < scores[ALGOS[k]]
    IN  ALGOS[i]

\* `if rule_algo and rule_algo in ALGOS`
RuleForces(rule_algo) == rule_algo # None /\ rule_algo # "" /\ rule_algo \in AlgoSet

PatternNudges_any_distance(scores_, pattern_algo) ==
    /\ pattern_algo # None /\ pattern_algo # ""
    /\ pattern_algo \in AlgoSet

\* the pattern hint applies: a candidate whose score is within 1.0 of the best
PatternNudges(scores, pattern_algo) ==
    /\ pattern_algo # None /\ pattern_algo # ""
    /\ pattern_algo \in AlgoSet
    /\ scores[pattern_algo] >= scores[best_algo_of(scores)] - 2

\* mutant: the historical algo is taken without the candidate check
choose_algo_unchecked_hint(scores, rule_algo, pattern_algo) ==
    IF RuleForces(rule_algo) THEN rule_algo
    ELSE IF pattern_algo # None /\ pattern_algo # "" THEN pattern_algo
    ELSE best_algo_of(scores)

\* mutant: the pattern hint is consulted before the rule override
choose_algo_pattern_first(scores, rule_algo, pattern_algo) ==
    IF PatternNudges(scores, pattern_algo) THEN pattern_algo
    ELSE IF RuleForces(rule_algo) THEN rule_algo
    ELSE best_algo_of(scores)

choose_algo(scores, rule_algo, pattern_algo) ==
    IF RuleForces(rule_algo) THEN rule_algo
    ELSE IF PatternNudges(scores, pattern_algo) THEN pattern_algo
    ELSE best_algo_of(scores)

\* the scores dict when score_algos returns: the rule override returns before
\* the adjustment step, otherwise the adjusted copy replaces the base scores
final_scores(ctx, rule_algo) ==
    IF RuleForces(rule_algo) THEN scores_of(ctx)
    ELSE ebm_adjust_algo_scores(ctx, scores_of(ctx)).scores

\* reasons_by_algo.get(chosen, [])
ReasonsFor(by_algo, a) == IF a \in DOMAIN by_algo THEN by_algo[a] ELSE <<>>

score_algos(ctx, rule_algo, pattern_algo) ==
    LET by_algo == reasons_by_algo(ctx)
        ebm == ebm_adjust_algo_scores(ctx, scores_of(ctx))
        scores == ebm.scores
        chosen == choose_algo(scores, rule_algo, pattern_algo)
    IN  [chosen  |-> chosen,
         reasons |->
            IF RuleForces(rule_algo)
            THEN dedupe(<<"Algo forced by hard rule engine">> \o ReasonsFor(by_algo, chosen))
            ELSE IF PatternNudges(scores, pattern_algo)
            THEN dedupe(ReasonsFor(by_algo, chosen)
                        \o <<"Historical preference lightly boosted " \o chosen
                             \o " over other candidates">>
                        \o ebm.reasons)
            ELSE dedupe(ReasonsFor(by_algo, chosen) \o ebm.reasons)]

(***************************************************************************)
(* parameter_engine.py: build_core_fields                                  *)
(***************************************************************************)
\* session window of _synthetic_market_now and the day cap, minutes since midnight
SessionOpenMinute == 570
SessionCloseMinute == 955
SessionDefaultMinute == 600
DayCapMinute == 959

\* datetime.now().replace(second=0), clamped: outside 09:30..15:55 it is 10:00
synthetic_market_now(now) ==
    LET m == now \div 2
    IN  IF m < SessionOpenMinute \/ m > SessionCloseMinute THEN SessionDefaultMinute ELSE m

TwoDigits(n) == IF n < 10 THEN "0" \o ToString(n) ELSE ToString(n)
\* strftime("%H:%M")
TimeStr(m) == TwoDigits(m \div 60) \o ":" \o TwoDigits(m % 60)

tif_from_window(effective_minutes_to_close) ==
    IF effective_minutes_to_close <= 5 THEN "IOC" ELSE "DAY"

\* n / d rounded to the nearest integer, halves upward, for d > 0
Nearest(n, d) == (2 * n + d) \div (2 * d)

\* n / d lies halfway between two integers
IsTie(n, d) == 2 * (n % d) = d

\* an optional price in cents as the optional float the source holds
price_of(cents) == IF IsSome(cents) THEN Some(FloatOfRatio(Val(cents), 100)) ELSE Nothing

\* `x or y` on an optional float: None and 0.0 are both falsy
FloatOrElse(x, y) == IF IsSome(x) /\ Val(x) # FloatZero THEN x ELSE y

\* `x or y` on an optional number: None and 0.0 are both falsy
OrElse(x, y) == IF IsSome(x) /\ Val(x) # 0 THEN x ELSE y

\* round(min(limit, upper_band), 2) and round(max(limit, lower_band), 2), in
\* cents, for a float bid, ask and spread
banded_price_float(direction, bid, ask, spread) ==
    IF lower(direction) = "buy"
    THEN PyRound(FloatMin(FloatAdd(bid, FloatMul(Lit_0_25, spread)),
                          FloatAdd(ask, spread)), 100)
    ELSE PyRound(FloatMax(FloatSub(ask, FloatMul(Lit_0_25, spread)),
                          FloatSub(bid, spread)), 100)

\* spread = float(spread or max(ask - bid, 0.01))
spread_or_gap_float(direction, bid, ask, spread) ==
    banded_price_float(direction, bid, ask,
                       IF spread # FloatZero THEN spread
                       ELSE FloatMax(FloatSub(ask, bid), Lit_0_01))

\* bid = float(bid or ltp or 0.0), ask = float(ask or ltp or 0.0)
quotes_or_ltp_float(direction, bid, ask, ltp, spread) ==
    spread_or_gap_float(direction,
                        Val(FloatOrElse(bid, FloatOrElse(ltp, Some(FloatZero)))),
                        Val(FloatOrElse(ask, FloatOrElse(ltp, Some(FloatZero)))),
                        spread)

\* a missing ask is bid + spread
missing_ask_float(direction, bid, ask, ltp, spread) ==
    quotes_or_ltp_float(direction, bid,
                        IF ~IsSome(ask) /\ IsSome(bid)
                        THEN Some(FloatAdd(Val(bid), spread)) ELSE ask,
                        ltp, spread)

\* a missing bid is ask - spread
missing_bid_float(direction, bid, ask, ltp, spread) ==
    missing_ask_float(direction,
                      IF ~IsSome(bid) /\ IsSome(ask)
                      THEN Some(FloatSub(Val(ask), spread)) ELSE bid,
                      ask, ltp, spread)

\* the price in the float arithmetic of the source, statement by statement:
\* round(price, 2) in cents, for prices and a spread given in cents
limit_price_float(direction, bid0, ask0, ltp0, spread0) ==
    missing_bid_float(direction, price_of(bid0), price_of(ask0), price_of(ltp0),
                      FloatOfRatio(spread0, 100))

\* both sides quote the mid price
protection_banded_limit_price_mid(direction, bid0, ask0, ltp, spread0) ==
    LET bid1 == IF ~IsSome(bid0) /\ IsSome(ask0) THEN Some(Val(ask0) - spread0) ELSE bid0
        ask1 == IF ~IsSome(ask0) /\ IsSome(bid1) THEN Some(Val(bid1) + spread0) ELSE ask0
        bid == Val(OrElse(bid1, OrElse(ltp, Some(0))))
        ask == Val(OrElse(ask1, OrElse(ltp, Some(0))))
    IN  IF ~(IsSome(ltp) /\ Val(ltp) # 0) /\ ~IsSome(bid0) /\ ~IsSome(ask0)
        THEN Nothing
        ELSE Some(Nearest(bid + ask, 2))

\* prices and spread in cents; the result is round(price, 2), in cents.  The
\* price is followed in hundredths of a cent: off a half cent the float of the
\* source rounds as the exact price does, on a half cent its float arithmetic
\* decides
protection_banded_limit_price(direction, bid0, ask0, ltp, spread0) ==
    LET bid1 == IF ~IsSome(bid0) /\ IsSome(ask0) THEN Some(Val(ask0) - spread0) ELSE bid0
        ask1 == IF ~IsSome(ask0) /\ IsSome(bid1) THEN Some(Val(bid1) + spread0) ELSE ask0
        bid == Val(OrElse(bid1, OrElse(ltp, Some(0))))
        ask == Val(OrElse(ask1, OrElse(ltp, Some(0))))
        spread == IF spread0 # 0 THEN spread0 ELSE Max(ask - bid, 1)
        price == IF lower(direction) = "buy"
                 THEN Min(bid * 100 + 25 * spread, (ask + spread) * 100)
                 ELSE Max(ask * 100 - 25 * spread, (bid - spread) * 100)
    IN  IF ~(IsSome(ltp) /\ Val(ltp) # 0) /\ ~IsSome(bid0) /\ ~IsSome(ask0)
        THEN Nothing
        ELSE IF IsTie(price, 100)
        THEN Some(limit_price_float(direction, bid0, ask0, ltp, spread0))
        ELSE Some(Nearest(price, 100))

\* the notes keyword is looked at before the rule override
order_type_of_stop_first(ctx, rule_order_type) ==
    IF Contains(lower(or_empty(ctx.request.notes)), "stop") THEN "Stop"
    ELSE IF rule_order_type # None /\ rule_order_type # "" THEN rule_order_type
    ELSE IF /\ ctx.urgency_level = "High"
            /\ ctx.liquidity_bucket \in {"High", "Medium"}
            /\ ctx.spread <= 10
         THEN "Market"
    ELSE "Limit"

\* rule override, else Stop from the notes, else Market when urgent and liquid,
\* else Limit
order_type_of(ctx, rule_order_type) ==
    IF rule_order_type # None /\ rule_order_type # "" THEN rule_order_type
    ELSE IF Contains(lower(or_empty(ctx.request.notes)), "stop") THEN "Stop"
    ELSE IF /\ ctx.urgency_level = "High"
            /\ ctx.liquidity_bucket \in {"High", "Medium"}
            /\ ctx.spread <= 10
         THEN "Market"
    ELSE "Limit"

order_type_reason(ctx, rule_order_type) ==
    LET ot == order_type_of(ctx, rule_order_type)
    IN  IF rule_order_type # None /\ rule_order_type # ""
        THEN "Order type: " \o ot \o " (rule)"
        ELSE IF ot = "Stop" THEN "Order type: Stop (notes)"
        ELSE IF ot = "Market" THEN "Order type: Market (urgency, liquidity)"
        ELSE "Order type: Limit"

\* a floor of 10 minutes that may exceed the effective time to close
window_minutes_of_hard_floor(urgency, effective_ttc) ==
    LET w == IF urgency = "High" THEN Min(effective_ttc, 30)
             ELSE IF urgency = "Medium" THEN Min(effective_ttc, 90)
             ELSE Min(effective_ttc, 240)
    IN  IF effective_ttc > 0 /\ w < 10 THEN 10 ELSE w

\* capped by urgency, bounded by the effective time to close, floored at 10
window_minutes_of(urgency, effective_ttc) ==
    LET w == IF urgency = "High" THEN Min(effective_ttc, 30)
             ELSE IF urgency = "Medium" THEN Min(effective_ttc, 90)
             ELSE Min(effective_ttc, 240)
    IN  IF effective_ttc > 0 /\ w < 10 THEN Min(effective_ttc, 10) ELSE w

end_minute_of_uncapped(start, window_minutes) == start + window_minutes

\* end_dt = now + window, kept inside the synthetic trading day (15:59 cap)
end_minute_of(start, window_minutes) == Min(start + window_minutes, DayCapMinute)

\* build_core_fields(context, chosen_algo, rule_order_type), reading the clock (now)
build_core_fields(ctx, chosen_algo, rule_order_type, now) ==
    LET order_type == order_type_of(ctx, rule_order_type)
        limit_price == IF order_type \in {"Limit", "Stop"}
                       THEN protection_banded_limit_price(ctx.request.direction, ctx.bid,
                                                          ctx.ask, ctx.ltp, ctx.spread)
                       ELSE Nothing
        start == synthetic_market_now(now)
        window_minutes == window_minutes_of(ctx.urgency_level, ctx.effective_time_to_close)
        end_dt == end_minute_of(start, window_minutes)
        tif == tif_from_window(ctx.effective_time_to_close)
    IN  [core |-> [order_type    |-> order_type,
                   limit_price   |-> limit_price,
                   direction     |-> ctx.request.direction,
                   time_in_force |-> tif,
                   start_time    |-> TimeStr(start),
                   end_time      |-> TimeStr(end_dt),
                   algo_type     |-> chosen_algo],
         reasons |-> <<order_type_reason(ctx, rule_order_type)>>
                     \o (IF IsSome(limit_price) THEN <<"Limit: bid/ask band">> ELSE <<>>)
                     \o <<"TIF: " \o tif \o " (" \o ToString(window_minutes) \o "m window)">>]

(***************************************************************************)
(* parameter_engine.py: build_algo_parameters                              *)
(***************************************************************************)
\* client.get("aggression_bias", "Medium") or "Medium"
client_aggression(ctx) ==
    IF ctx.client_profile.found /\ ctx.client_profile.aggression_bias # ""
    THEN ctx.client_profile.aggression_bias ELSE "Medium"

\* the aggression steps in code order: each entry is [value, reason] of an
\* assignment that ran; the last one is the result
aggression_steps(ctx, rule_aggression, pattern_aggression) ==
    LET pref == ctx.notes_intents.aggression_preference
        a0 == client_aggression(ctx)
        a1 == IF pref = "HIGH" THEN "High" ELSE IF pref = "LOW" THEN "Low" ELSE a0
    IN  (IF pref = "HIGH" THEN <<[value |-> "High", reason |-> "Aggression: High (notes)"]>>
         ELSE IF pref = "LOW" THEN <<[value |-> "Low", reason |-> "Aggression: Low (notes)"]>>
         ELSE <<>>)
        \o (IF ctx.urgency_level = "High" /\ a1 # "High"
            THEN <<[value |-> "High", reason |-> "Aggression: High (urgency)"]>> ELSE <<>>)
        \o (IF pattern_aggression # None /\ pattern_aggression # ""
            THEN <<[value |-> pattern_aggression,
                    reason |-> "Aggression: " \o pattern_aggression \o " (history)"]>>
            ELSE <<>>)
        \o (IF rule_aggression # None /\ rule_aggression # ""
            THEN <<[value |-> rule_aggression,
                    reason |-> "Aggression: " \o rule_aggression \o " (rule)"]>>
            ELSE <<>>)

resolve_aggression(ctx, rule_aggression, pattern_aggression) ==
    LET steps == aggression_steps(ctx, rule_aggression, pattern_aggression)
    IN  IF steps = <<>> THEN client_aggression(ctx) ELSE steps[Len(steps)].value

\* participation in thousandths: client preference, +0.02 ARRIVAL, +0.05 High
\* urgency (both capped at 0.30), -0.03 impact-sensitive (floored at 0.05)
participation_base(ctx) ==
    LET b0 == IF ctx.client_profile.found THEN ctx.client_profile.participation_pref ELSE 100
        b1 == IF ctx.notes_intents.benchmark_type = "ARRIVAL" THEN Min(b0 + 20, 300) ELSE b0
        b2 == IF ctx.urgency_level = "High" THEN Min(300, b1 + 50) ELSE b1
    IN  IF ctx.notes_intents.market_impact_sensitive THEN Max(50, b2 - 30) ELSE b2

\* base = max(0.05, base - 0.03) when the notes are impact-sensitive
impact_base_float(ctx, base) ==
    IF ctx.notes_intents.market_impact_sensitive
    THEN FloatMax(Lit_0_05, FloatSub(base, Lit_0_03)) ELSE base

\* base = min(0.30, base + 0.05) under High urgency
urgent_base_float(ctx, base) ==
    impact_base_float(ctx, IF ctx.urgency_level = "High"
                           THEN FloatMin(Lit_0_30, FloatAdd(base, Lit_0_05)) ELSE base)

\* base = min(base + 0.02, 0.30) for the ARRIVAL benchmark
arrival_base_float(ctx, base) ==
    urgent_base_float(ctx, IF ctx.notes_intents.benchmark_type = "ARRIVAL"
                           THEN FloatMin(FloatAdd(base, Lit_0_02), Lit_0_30) ELSE base)

\* the same base in the float arithmetic of the source, statement by statement
participation_base_float(ctx) ==
    arrival_base_float(ctx, IF ctx.client_profile.found
                            THEN FloatOfRatio(ctx.client_profile.participation_pref, 1000)
                            ELSE Lit_0_10)

\* round(base, 2), in hundredths: off a half hundredth the float base rounds
\* as the exact base does, on a half hundredth the float arithmetic decides
pov_participation_rate(ctx) ==
    IF IsTie(participation_base(ctx), 10)
    THEN PyRound(participation_base_float(ctx), 100)
    ELSE Nearest(participation_base(ctx), 10)

\* int(participation_rate * 100): the float product falls just short of the
\* integer for 0.29, 0.57 and 0.58 (rates up to 1.00)
pct_of_rate(rate) == IF rate \in {29, 57, 58} THEN rate - 1 ELSE rate

\* int(n * lit) for an int n >= 0 and the float literal lit of num / den: the
\* float product truncates as the exact one does unless that is a whole
\* number, where the float arithmetic decides
int_of_product(n, num, den, lit) ==
    IF (n * num) % den = 0 THEN PyInt(FloatMul(FloatOfInt(n), lit))
    ELSE (n * num) \div den

\* the separator the source prints between the clip sizes (three non-ASCII
\* characters, written here by their code points)
ClipSeparator == "\\u00e2\\u20ac\\u201c"

build_algo_parameters(ctx, chosen_algo, rule_aggression, pattern_aggression) ==
    LET steps == aggression_steps(ctx, rule_aggression, pattern_aggression)
        aggression == resolve_aggression(ctx, rule_aggression, pattern_aggression)
        adv == IF ctx.instrument_profile.found THEN ctx.instrument_profile.adv ELSE 1
        last_trade_size == IF ctx.market_snapshot.found
                           THEN ctx.market_snapshot.last_trade_size ELSE 500
        rate == pov_participation_rate(ctx)
        avg_trade == Max(last_trade_size, 100)
        min_clip == Max(1, avg_trade \div 2)
        max_clip == avg_trade * 2
        volume_curve == IF ctx.notes_intents.benchmark_type = "VWAP" THEN "Historical"
                        ELSE IF ctx.urgency_level = "High" THEN "Front-loaded"
                        ELSE "Historical"
        max_volume_pct == IF ctx.volatility_bucket = "High" THEN 20 ELSE 15
        pct_adv == Max(1, int_of_product(adv, 2, 100, Lit_0_02))
        pct_order == Max(1, int_of_product(ctx.request.order_size, 10, 100, Lit_0_10))
        dq0 == Min(pct_adv, pct_order)
        display_quantity == IF ctx.notes_intents.market_impact_sensitive
                            THEN Max(1, int_of_product(dq0, 7, 10, Lit_0_7)) ELSE dq0
        is_pov == chosen_algo = "POV"
        is_vwap == chosen_algo = "VWAP"
        is_ice == chosen_algo = "ICEBERG"
    IN  [params |->
            [participation_rate |-> IF is_pov THEN Some(rate) ELSE Nothing,
             min_clip_size      |-> IF is_pov THEN Some(min_clip) ELSE Nothing,
             max_clip_size      |-> IF is_pov THEN Some(max_clip) ELSE Nothing,
             volume_curve       |-> IF is_vwap THEN volume_curve ELSE None,
             max_volume_pct     |-> IF is_vwap THEN Some(max_volume_pct) ELSE Nothing,
             display_quantity   |-> IF is_ice THEN Some(display_quantity) ELSE Nothing,
             aggression_level   |-> aggression],
         reasons |->
            [i \in 1..Len(steps) |-> steps[i].reason]
            \o (IF is_pov
                THEN <<"POV participation: " \o ToString(pct_of_rate(rate)) \o "%",
                       "POV clips: " \o ToString(min_clip) \o ClipSeparator
                       \o ToString(max_clip) \o " (vs avg trade)">>
                ELSE IF is_vwap
                THEN <<"VWAP curve: " \o volume_curve,
                       "VWAP max vol: " \o ToString(max_volume_pct) \o "%">>
                ELSE IF is_ice
                THEN <<"ICEBERG display: " \o ToString(display_quantity)>>
                ELSE <<>>)]

(***************************************************************************)
(* explain_engine.py: build_explanations; main.py: ContextFlags            *)
(***************************************************************************)
\* int(round(size_vs_adv * 100, 0)): off a half percent the float rounds as
\* the exact ratio does, on a half percent the float arithmetic decides
size_pct(ctx) ==
    IF IsTie(ctx.size_vs_adv.num * 100, ctx.size_vs_adv.den)
    THEN PyRound(FloatMul(float_of_frac(ctx.size_vs_adv), Lit_100), 1)
    ELSE Nearest(ctx.size_vs_adv.num * 100, ctx.size_vs_adv.den)

\* round(size_vs_adv, 2), in hundredths, decided the same way
size_vs_adv_rounded(ctx) ==
    IF IsTie(ctx.size_vs_adv.num * 100, ctx.size_vs_adv.den)
    THEN PyRound(float_of_frac(ctx.size_vs_adv), 100)
    ELSE Nearest(ctx.size_vs_adv.num * 100, ctx.size_vs_adv.den)

context_lines(ctx) ==
    LET ni == ctx.notes_intents
        tol == ctx.historical_tolerance_ratio
    IN  <<"Order size is " \o ToString(size_pct(ctx)) \o "% of ADV">>
        \o (IF ctx.fat_finger_flag
            THEN (IF IsSome(tol) /\ Val(tol) # 0
                  THEN <<"Quantity breaches historical size tolerance (~"
                         \o ToString(Nearest(Val(tol), 2))
                         \o "% of ADV); flagging potential fat-finger">>
                  ELSE <<"Quantity is unusually large relative to historical patterns; flagging potential fat-finger">>)
            ELSE <<>>)
        \o (IF ni.benchmark_type = "VWAP" THEN <<"Order notes specify a VWAP benchmark">>
            ELSE IF ni.benchmark_type = "ARRIVAL"
            THEN <<"Order notes specify an arrival-price benchmark">>
            ELSE <<>>)
        \o (IF ni.completion_required
            THEN <<"Order must complete by close as indicated in notes">> ELSE <<>>)
        \o (IF ni.market_impact_sensitive
            THEN <<"Order notes request minimising market impact">> ELSE <<>>)

\* the rule reasons are placed ahead of the pattern reasons
build_explanations_rules_before_pattern(ctx, rule_reasons, pattern_reasons, score_reasons, param_reasons) ==
    dedupe(context_lines(ctx) \o score_reasons \o param_reasons
           \o rule_reasons \o pattern_reasons)

\* the five streams in their fixed order, deduplicated
build_explanations(ctx, rule_reasons, pattern_reasons, score_reasons, param_reasons) ==
    dedupe(context_lines(ctx) \o score_reasons \o param_reasons
           \o pattern_reasons \o rule_reasons)

\* ContextFlags(...) of run_recommend_pipeline; size_vs_adv in hundredths
context_flags_of(ctx) ==
    [urgency_level           |-> ctx.urgency_level,
     size_vs_adv             |-> size_vs_adv_rounded(ctx),
     volatility_bucket       |-> ctx.volatility_bucket,
     liquidity_bucket        |-> ctx.liquidity_bucket,
     spread                  |-> ctx.spread,
     intraday_vol            |-> ctx.intraday_vol,
     avg_trade_size          |-> IF ctx.market_snapshot.found
                                 THEN ctx.market_snapshot.last_trade_size ELSE 0,
     liquidity_score         |-> ctx.liquidity_score,
     time_to_close_request   |-> ctx.time_to_close_request,
     time_to_close_system    |-> ctx.time_to_close_system,
     effective_time_to_close |-> ctx.effective_time_to_close,
     fat_finger_flag         |-> ctx.fat_finger_flag]

(***************************************************************************)
(* The pipeline of run_recommend_pipeline as a state machine.              *)
(***************************************************************************)
VARIABLES
    pc,          \* the stage run_recommend_pipeline is about to execute
    request,     \* the OrderRequest
    files,       \* the data/ directory: file name -> file
    data,        \* the frames load_all_data returned
    clock,       \* the wall clock, half minutes since midnight
    ticks,       \* clock ticks since the request arrived
    clock_reads, \* the readings datetime.now() has returned to this request
    ctx,         \* context
    rule_result,
    pattern,     \* (pattern_algo, pattern_aggression, pattern_reasons)
    scores,      \* the scores dict of score_algos
    score,       \* (chosen_algo, score_reasons)
    core,        \* (core_fields, core_reasons)
    algo,        \* (algo_params, algo_param_reasons)
    response     \* RecommendationResponse

vars == <<pc, request, files, data, clock, ticks, clock_reads, ctx, rule_result, pattern,
          scores, score, core, algo, response>>

\* bound on the clock ticks during one request
MaxTicks == 1

ClientIds == {"CLT001", "CLT002", "CLT999"}
Symbols == {"AAA", "BBB", "CCC", "ZZZ"}
OrderSizes == {1, 30000, 50000, 300000}
Directions == {"Buy", "Sell"}
TimesToClose == {0, 10, 18, 120}
NotesSet ==
    { Nothing,
      Some("vwap"),
      Some("VWAP benchmark, must complete by close"),
      Some("VWAP benchmark, arrival price"),
      Some("Benchmark: VWAP minimize market impact"),
      Some("arrival price"),
      Some("minimize market impact"),
      Some("steady execution"),
      Some("minimise market impact, steady execution"),
      Some("Urgent"),
      Some("must complete"),
      Some("Stop loss") }
\* 15:29:00, 15:55:30, 16:30:00
ClockStarts == {1858, 1911, 1980}

\* OrderRequest: order_size > 0 and time_to_close >= 0 (models.py)
Requests ==
    { r \in [client_id : ClientIds, symbol : Symbols, order_size : OrderSizes,
             direction : Directions, time_to_close : TimesToClose, notes : NotesSet] :
        r.order_size > 0 /\ r.time_to_close >= 0 }

\* the data/ directory with the four files
AllFiles ==
    (CLIENTS_CSV :> File(ClientsTable)) @@ (INSTRUMENTS_CSV :> File(InstrumentsTable))
    @@ (HISTORICAL_ORDERS_CSV :> File(HistoricalOrdersTable))
    @@ (MARKET_SNAPSHOT_CSV :> File(MarketSnapshotTable))

\* the directory with only the files named in present
WithOnly(present) == [n \in DOMAIN AllFiles |-> IF n \in present THEN AllFiles[n] ELSE NoFile]

\* the directories a request can meet: complete, absent, and with the files
\* after clients.csv, or after instruments.csv, missing
DataDirs ==
    { AllFiles, WithOnly({}), WithOnly({CLIENTS_CSV}),
      WithOnly({CLIENTS_CSV, INSTRUMENTS_CSV}) }

Unset == [set |-> FALSE]

Init ==
    /\ pc = "load"
    /\ request \in Requests
    /\ files \in DataDirs
    /\ data = Unset
    /\ clock \in ClockStarts
    /\ ticks = 0
    /\ clock_reads = <<>>
    /\ ctx = Unset
    /\ rule_result = Unset
    /\ pattern = Unset
    /\ scores = Unset
    /\ score = Unset
    /\ core = Unset
    /\ algo = Unset
    /\ response = Unset

\* a minute passes while the request is in the pipeline
Tick ==
    /\ pc \notin {"done", "failed"}
    /\ ticks < MaxTicks
    /\ clock' = clock + 2
    /\ ticks' = ticks + 1
    /\ UNCHANGED <<scores, pc, request, files, data, clock_reads, ctx, rule_result, pattern, score,
                   core, algo, response>>

\* 1. data = load_all_data()
LoadData ==
    /\ pc = "load"
    /\ data' = load_all_data(files)
    /\ pc' = "context"
    /\ UNCHANGED <<scores, request, files, clock, ticks, clock_reads, ctx, rule_result, pattern,
                   score, core, algo, response>>

\* 2. context = build_context(request, data); an exception leaves
\* run_recommend_pipeline and recommend answers it with HTTP 500
BuildContext ==
    /\ pc = "context"
    /\ \E built \in {build_context(request, data, files, clock)} :
           IF Raised(built)
           THEN /\ response' = [status_code |-> 500, detail |-> built.detail]
                /\ pc' = "failed"
                /\ UNCHANGED <<ctx, clock_reads>>
           ELSE /\ ctx' = built
                /\ clock_reads' = Append(clock_reads, clock)
                /\ pc' = "rules"
                /\ UNCHANGED response
    /\ UNCHANGED <<scores, request, files, data, clock, ticks, rule_result, pattern, score, core,
                   algo>>

\* 3. rule_result = apply_rules(context)
ApplyRules ==
    /\ pc = "rules"
    /\ rule_result' = apply_rules(ctx)
    /\ pc' = "pattern"
    /\ UNCHANGED <<scores, request, files, data, clock, ticks, clock_reads, ctx, pattern, score, core,
                   algo, response>>

\* 4. match_historical(client_id, symbol, size_vs_adv, volatility_bucket, data)
MatchHistorical ==
    /\ pc = "pattern"
    /\ pattern' \in match_historical(request.client_id, request.symbol, ctx.size_vs_adv,
                                      ctx.volatility_bucket, data)
    /\ pc' = "score"
    /\ UNCHANGED <<scores, request, files, data, clock, ticks, clock_reads, ctx, rule_result, score, core,
                   algo, response>>

\* a scoring stage whose adjustment step stores the adjusted liquidity score
\* back into the context
ScoreAlgos_writing_context ==
    /\ pc = "score"
    /\ score' = score_algos(ctx, rule_result.algo, pattern.algo)
    /\ scores' = final_scores(ctx, rule_result.algo)
    /\ ctx' = [ctx EXCEPT !.liquidity_score = FloatZero]
    /\ pc' = "core"
    /\ UNCHANGED <<request, files, data, clock, ticks, clock_reads, rule_result, pattern,
                   core, algo, response>>

\* 5. score_algos(context, rule_algo, pattern_algo)
ScoreAlgos ==
    /\ pc = "score"
    /\ score' = score_algos(ctx, rule_result.algo, pattern.algo)
    /\ scores' = final_scores(ctx, rule_result.algo)
    /\ pc' = "core"
    /\ UNCHANGED <<request, files, data, clock, ticks, clock_reads, ctx, rule_result, pattern,
                   core, algo, response>>

\* 6a. build_core_fields(context, chosen_algo, rule_order_type)
BuildCoreFields ==
    /\ pc = "core"
    /\ core' = build_core_fields(ctx, score.chosen, rule_result.order_type, clock)
    /\ clock_reads' = Append(clock_reads, clock)
    /\ pc' = "params"
    /\ UNCHANGED <<scores, request, files, data, clock, ticks, ctx, rule_result, pattern, score, algo,
                   response>>

\* mutant: the parameters are resolved for the client's preferred algo
\* instead of the chosen one
BuildAlgoParameters_for_preferred_algo ==
    /\ pc = "params"
    /\ algo' = build_algo_parameters(ctx,
                                     IF ctx.client_profile.found
                                     THEN ctx.client_profile.preferred_algo ELSE "VWAP",
                                     rule_result.aggression, pattern.aggression)
    /\ pc' = "explain"
    /\ UNCHANGED <<scores, request, files, data, clock, ticks, clock_reads, ctx, rule_result, pattern,
                   score, core, response>>

\* 6b. build_algo_parameters(context, chosen_algo, rule_aggression, pattern_aggression)
BuildAlgoParameters ==
    /\ pc = "params"
    /\ algo' = build_algo_parameters(ctx, score.chosen, rule_result.aggression,
                                     pattern.aggression)
    /\ pc' = "explain"
    /\ UNCHANGED <<scores, request, files, data, clock, ticks, clock_reads, ctx, rule_result, pattern,
                   score, core, response>>

\* 7, 8. build_explanations, ContextFlags, RecommendationResponse
BuildResponse ==
    /\ pc = "explain"
    /\ response' =
         [core_order_fields |-> core.core,
          algo_parameters   |-> algo.params,
          context_flags     |-> context_flags_of(ctx),
          explanations      |-> build_explanations(ctx, rule_result.reasons, pattern.reasons,
                                                   score.reasons,
                                                   core.reasons \o algo.reasons)]
    /\ pc' = "done"
    /\ UNCHANGED <<scores, request, files, data, clock, ticks, clock_reads, ctx, rule_result, pattern,
                   score, core, algo>>

Next ==
    \/ Tick
    \/ LoadData
    \/ BuildContext
    \/ ApplyRules
    \/ MatchHistorical
    \/ ScoreAlgos
    \/ BuildCoreFields
    \/ BuildAlgoParameters
    \/ BuildResponse

Spec == Init /\ [][Next]_vars

Done == pc = "done"

\* the request failed: recommend answered it with HTTP 500
Failed == pc = "failed"

\* the stages after build_context returned a context
ContextBuilt == pc \notin {"load", "context", "failed"}

(***************************************************************************)
(* Properties                                                              *)
(***************************************************************************)
\* C1: every completed request has exactly one chosen strategy, it is one of
\* VWAP, POV, ICEBERG (also when the historical algo is none of them), and
\* CoreOrderFields.algo_type equals it.
C1_OneStrategyChosen ==
    Done => /\ score.chosen \in AlgoSet
            /\ response.core_order_fields.algo_type = score.chosen

\* a completed request whose historical algo is outside the candidates and
\* for which no rule forced an algo
C1_Witness ==
    /\ Done
    /\ rule_result.algo = None
    /\ pattern.algo \notin AlgoSet \cup {None, ""}

\* the VWAP benchmark phrases of _parse_notes_intents
HasVwapBenchmarkPhrase(notes) ==
    LET text == lower(or_empty(notes))
    IN  \/ Contains(text, "vwap benchmark")
        \/ Contains(text, "benchmark: vwap")
        \/ Contains(text, "vwap ")

\* C2: notes that contain a VWAP benchmark phrase end with algo VWAP, whatever
\* the scores, the pattern hint, the urgency and the other phrases.
C2_VwapPhraseForcesVwap ==
    (Done /\ HasVwapBenchmarkPhrase(request.notes))
        => response.core_order_fields.algo_type = "VWAP"

\* a VWAP phrase together with an arrival-price phrase (which overwrites the
\* parsed benchmark), while the best score is not VWAP's
C2_Witness ==
    /\ Done
    /\ HasVwapBenchmarkPhrase(request.notes)
    /\ ctx.notes_intents.benchmark_type = "ARRIVAL"
    /\ best_algo_of(scores_of(ctx)) # "VWAP"

\* C3: size-vs-ADV > 0.25 never ends with order_type Market.
C3_LargeOrderNeverMarket ==
    (Done /\ FracGt(ctx.size_vs_adv, 25, 100))
        => response.core_order_fields.order_type # "Market"

\* a large order for which the Market condition (High urgency, liquid, tight
\* spread, no "stop" in the notes) holds
C3_Witness ==
    /\ Done
    /\ FracGt(ctx.size_vs_adv, 25, 100)
    /\ ctx.urgency_level = "High"
    /\ ctx.liquidity_bucket \in {"High", "Medium"}
    /\ ctx.spread <= 10
    /\ ~Contains(lower(or_empty(request.notes)), "stop")

\* C4: a POV result has its participation_rate within [0.05, 0.30], for every
\* client preference.  (participation_rate is in hundredths.)
C4_ParticipationClamped ==
    (Done /\ score.chosen = "POV")
        => /\ Val(response.algo_parameters.participation_rate) >= 5
           /\ Val(response.algo_parameters.participation_rate) <= 30

\* C5: an algo forced by the rule engine is the final strategy, whatever the
\* scores and the pattern hint.
C5_RuleAlgoIsFinal ==
    (Done /\ rule_result.algo # None)
        => /\ score.chosen = rule_result.algo
           /\ response.core_order_fields.algo_type = rule_result.algo

\* a forced algo against both the best score and a usable pattern hint
C5_Witness ==
    /\ Done
    /\ rule_result.algo # None
    /\ best_algo_of(scores_of(ctx)) # rule_result.algo
    /\ PatternNudges(scores_of(ctx), pattern.algo)
    /\ pattern.algo # rule_result.algo

\* the value a notes aggression preference stands for
NotesAggression(pref) ==
    CASE pref = "HIGH" -> "High" [] pref = "MEDIUM" -> "Medium" [] pref = "LOW" -> "Low"

\* C6: the final aggression is the value of the highest-ranked source present:
\* rule > pattern > notes preference > urgency-High bump > client default.
C6_AggressionPrecedence ==
    Done => response.algo_parameters.aggression_level =
              (IF rule_result.aggression # None THEN rule_result.aggression
               ELSE IF pattern.aggression # None THEN pattern.aggression
               ELSE IF ctx.notes_intents.aggression_preference # None
                    THEN NotesAggression(ctx.notes_intents.aggression_preference)
               ELSE IF ctx.urgency_level = "High" THEN "High"
               ELSE IF ctx.client_profile.found THEN ctx.client_profile.aggression_bias
               ELSE "Medium")

\* C7: the clock is read once per request: the system-derived time-to-close
\* and the session time behind start_time are those of one clock reading t, so
\* that a tick between context assembly and parameter resolution cannot make
\* them disagree.
C7_SingleClockSample ==
    Done => \E t \in (clock - 2 * ticks)..clock :
               /\ ctx.time_to_close_system = system_minutes_to_close(t)
               /\ response.core_order_fields.start_time = TimeStr(synthetic_market_now(t))

\* C9: absent client, instrument, market and historical rows are no failure:
\* no request ends in an error, every stage yields a value, and the result is
\* complete and built from the defaults ADV = 1, buckets Medium, spread 0.0,
\* aggression Medium, participation preference 0.10.
C9_MissingRowsUseDefaults ==
    /\ ~Failed
    /\ (ContextBuilt /\ ~ctx.instrument_profile.found) =>
         /\ ctx.adv = 1
         /\ ctx.size_vs_adv = Frac(request.order_size, 1)
         /\ ctx.liquidity_bucket = "Medium"
         /\ ctx.volatility_bucket_instrument = "Medium"
    /\ (ContextBuilt /\ ~ctx.market_snapshot.found) =>
         /\ ctx.spread = 0
         /\ ctx.volatility_bucket = "Medium"
    /\ Done =>
         /\ response.core_order_fields.order_type \in {"Market", "Limit", "Stop"}
         /\ response.core_order_fields.algo_type \in AlgoSet
         /\ response.core_order_fields.time_in_force \in {"DAY", "IOC"}
         /\ response.algo_parameters.aggression_level \in {"Low", "Medium", "High"}
         /\ Len(response.explanations) > 0
    /\ (Done /\ ~ctx.client_profile.found) =>
         /\ (/\ rule_result.aggression = None /\ pattern.aggression = None
             /\ ctx.notes_intents.aggression_preference # "LOW")
              => response.algo_parameters.aggression_level = "Medium"
         /\ (/\ score.chosen = "POV"
             /\ ctx.notes_intents.benchmark_type # "ARRIVAL"
             /\ ctx.urgency_level # "High"
             /\ ~ctx.notes_intents.market_impact_sensitive)
              => response.algo_parameters.participation_rate = Some(10)

\* C10: with a VWAP benchmark signal and a completion-required phrase, rule 1
\* sets VWAP before rule 2 can default to POV, rule 2 still forces aggression
\* High, and the result is VWAP with aggression High.
C10_VwapThenCompletion ==
    (Done /\ Rule1(ctx) /\ ctx.notes_intents.completion_required)
        => /\ rule_result.algo = "VWAP"
           /\ rule_result.aggression = "High"
           /\ response.core_order_fields.algo_type = "VWAP"
           /\ response.algo_parameters.aggression_level = "High"

\* the example of the specification, with a historical aggression that differs
C10_Witness ==
    /\ Done
    /\ request.notes = Some("VWAP benchmark, must complete by close")
    /\ pattern.aggression \notin {None, "High"}

\* the HH:MM strings from 00:00 up to the 15:59 cap
TimesUpToDayCap == {TimeStr(m) : m \in 0..DayCapMinute}

\* C11: with urgency High and an effective time to close of 10 minutes the
\* execution window (the minutes reported on the TIF line) lies in 10..30, and
\* for every request and clock value end_time is not later than 15:59.
C11_WindowAndEndTime ==
    Done => /\ (ctx.urgency_level = "High" /\ ctx.effective_time_to_close = 10)
                => \E w \in 10..30 :
                      core.reasons[Len(core.reasons)]
                          = "TIF: " \o response.core_order_fields.time_in_force
                                    \o " (" \o ToString(w) \o "m window)"
            /\ response.core_order_fields.end_time \in TimesUpToDayCap

\* a completed High-urgency request with 10 minutes left
C11_Witness ==
    /\ Done
    /\ ctx.urgency_level = "High"
    /\ ctx.effective_time_to_close = 10
    /\ response.core_order_fields.end_time # response.core_order_fields.start_time

\* C12: once build_context has returned, no step of the pipeline changes a
\* field of the context or a row of the reference tables.
C12_ContextNeverMutated ==
    [][ContextBuilt => (ctx' = ctx /\ data' = data)]_vars

\* a completed request: every later stage has run and the context is still
\* the one build_context returned, the tables the ones that were loaded
C12_Witness ==
    /\ Done
    /\ ctx = build_context(request, data, files, clock_reads[1])
    /\ data = load_all_data(files)
    /\ Len(response.explanations) > 0

\* the stages after score_algos
Scored == pc \in {"core", "params", "explain", "done"}

\* the maximal score, in half points
BestScore == CHOOSE b \in {scores[a] : a \in AlgoSet} : \A a \in AlgoSet : scores[a] <= b

\* the historical algo is a candidate scoring at least the best score - 1.0
HintWithinOne == pattern.algo \in AlgoSet /\ scores[pattern.algo] >= BestScore - 2

\* C13: when no rule forced an algo, score_algos returns the pattern-hinted
\* candidate exactly when the hint is one of VWAP/POV/ICEBERG with a score of
\* at least best - 1.0; otherwise it returns a candidate of maximal score, so a
\* hint more than 1.0 below the best never changes the choice.
C13_PatternNudgeWithinOne ==
    (Scored /\ rule_result.algo = None)
        => /\ (score.chosen = pattern.algo) <=> HintWithinOne
           /\ ~HintWithinOne => scores[score.chosen] = BestScore

\* no rule algo and the hinted candidate, not the best one but within 1.0 of
\* it, is chosen
C13_Witness ==
    /\ Scored
    /\ rule_result.algo = None
    /\ HintWithinOne
    /\ scores[pattern.algo] < BestScore
    /\ score.chosen = pattern.algo

\* the position of a candidate in the fixed order VWAP, POV, ICEBERG
AlgoIndex(a) == CHOOSE i \in 1..Len(ALGOS) : ALGOS[i] = a

\* C14: when no rule forced an algo and no pattern hint applies, the chosen
\* algo has the maximal score and no candidate earlier in the order VWAP, POV,
\* ICEBERG has that score too.
C14_ArgmaxFixedTieBreak ==
    (Scored /\ rule_result.algo = None /\ ~HintWithinOne)
        => /\ scores[score.chosen] = BestScore
           /\ \A j \in 1..(AlgoIndex(score.chosen) - 1) : scores[ALGOS[j]] < BestScore

\* no rule algo, no applicable hint, and two candidates share the maximal score
C14_Witness ==
    /\ Scored
    /\ rule_result.algo = None
    /\ ~HintWithinOne
    /\ Cardinality({a \in AlgoSet : scores[a] = BestScore}) >= 2

\* 1 when the condition holds, else 0
Ind(b) == IF b THEN 1 ELSE 0

\* the scoring table, in half points: for each candidate the sum over the
\* factors (size, urgency/time, completion, volatility, liquidity, benchmark,
\* impact sensitivity, aggression preference) of the bump of the one branch
\* of the factor that applies
TableScore(a) ==
    LET ni     == ctx.notes_intents
        big    == FracGt(ctx.size_vs_adv, 25, 100)
        mid    == ~big /\ FracGt(ctx.size_vs_adv, 10, 100)
        near   == ctx.urgency_level = "High" \/ ctx.effective_time_to_close <= 20
        medium == ~near /\ ctx.urgency_level = "Medium"
        thin   == ctx.liquidity_bucket = "Low" \/ FloatCmp(ctx.liquidity_score, Lit_0_8) < 0
        deep   == ~thin /\ ctx.liquidity_bucket = "High"
                        /\ FloatCmp(ctx.liquidity_score, Lit_1_2) > 0
    IN  IF a = "VWAP"
        THEN 6 * Ind(big) + 4 * Ind(mid)
             + 2 * Ind(~near /\ ~medium)
             + 4 * Ind(ctx.volatility_bucket = "Low")
             + 10 * Ind(ni.benchmark_type = "VWAP")
             + 2 * Ind(ni.market_impact_sensitive)
             + 3 * Ind(ni.aggression_preference = "LOW")
        ELSE IF a = "POV"
        THEN 2 * Ind(big) + 2 * Ind(~big /\ ~mid)
             + 8 * Ind(near) + 3 * Ind(medium)
             + 6 * Ind(ni.completion_required)
             + 3 * Ind(ctx.volatility_bucket = "High")
             + 2 * Ind(deep)
             + 4 * Ind(ni.benchmark_type = "ARRIVAL")
             + 4 * Ind(ni.aggression_preference = "HIGH")
        ELSE 3 * Ind(ctx.volatility_bucket = "High")
             + 6 * Ind(thin)
             + 6 * Ind(ni.market_impact_sensitive)
             + 2 * Ind(ni.aggression_preference = "LOW")

\* C15: after scoring, the score of each candidate is the sum of exactly the
\* bumps of the scoring table, one branch per factor; an effective time to
\* close of at most 20 gives POV +4 also when urgency is Medium or Low.
C15_ScoresAreTableSums ==
    Scored => \A a \in AlgoSet : scores[a] = TableScore(a)

\* a scored request with Medium urgency and at most 20 minutes left
C15_Witness ==
    /\ Scored
    /\ ctx.urgency_level = "Medium"
    /\ ctx.effective_time_to_close <= 20
    /\ scores["POV"] >= 8

\* the stages after apply_rules
RulesApplied == pc \in {"pattern", "score", "core", "params", "explain", "done"}

\* how many of the six rules fired: rule 3 fires when urgency is High and rule
\* 2 left the aggression unset, rule 6 when urgency is High and rules 1 and 2
\* left the algo unset
FiredRules ==
    Ind(Rule1(ctx)) + Ind(Rule2(ctx))
    + Ind(ctx.urgency_level = "High" /\ ~Rule2(ctx))
    + Ind(Rule4(ctx)) + Ind(Rule5(ctx))
    + Ind(ctx.urgency_level = "High" /\ ~Rule1(ctx) /\ ~Rule2(ctx))

\* C16: every rule that fires appends exactly one reason line, so the number
\* of rule reasons equals the number of fired rules, also when rule 2 fires
\* while the algo is still unset.
C16_OneReasonPerFiredRule ==
    RulesApplied => Len(rule_result.reasons) = FiredRules

\* the stages after match_historical
PatternMatched == pc \in {"score", "core", "params", "explain", "done"}

\* the historical records with rows i and j exchanged
SwapRows(rows, i, j) ==
    [k \in 1..Len(rows) |-> IF k = i THEN rows[j] ELSE IF k = j THEN rows[i] ELSE rows[k]]

\* the rows the matcher selects: client + size bucket + volatility bucket, or
\* client + size bucket when that is empty
MatchedRows ==
    LET bucket == size_bucket(ctx.size_vs_adv)
        s1 == Filter(data.historical_orders.rows,
                     [client_id |-> request.client_id, size_bucket |-> bucket,
                      volatility_bucket |-> ctx.volatility_bucket], 1)
    IN  IF s1 # <<>> THEN s1
        ELSE Filter(data.historical_orders.rows,
                    [client_id |-> request.client_id, size_bucket |-> bucket], 1)

\* C17: the pattern matcher returns the most frequent strategy and the most
\* frequent aggression among the matched rows, and the values returned are
\* fixed by the matched rows: the same for every ordering of the historical
\* records (checked for every exchange of two records), with no second value
\* the matcher could return instead.
C17_StableModeTieBreak ==
    (PatternMatched /\ MatchedRows # <<>>)
        => LET algos == [k \in 1..Len(MatchedRows) |-> MatchedRows[k].algo_used]
               aggs  == [k \in 1..Len(MatchedRows) |-> MatchedRows[k].aggression_level]
               rows  == data.historical_orders.rows
               n     == Len(rows)
           IN  /\ \A k \in 1..Len(algos) :
                     CountOf(algos, algos[k]) <= CountOf(algos, pattern.algo)
               /\ \A k \in 1..Len(aggs) :
                     CountOf(aggs, aggs[k]) <= CountOf(aggs, pattern.aggression)
               /\ \A i \in 1..n : \A j \in i..n :
                     LET d2 == [data EXCEPT !.historical_orders =
                                               Frame(SwapRows(rows, i, j))]
                     IN  match_historical(request.client_id, request.symbol,
                                          ctx.size_vs_adv, ctx.volatility_bucket, d2)
                           = {pattern}

\* Low < Medium < High
UrgencyRank(u) == IF u = "High" THEN 3 ELSE IF u = "Medium" THEN 2 ELSE 1

\* the base urgency of the context: effective time to close < 15 High, < 60
\* Medium, else Low
BaseUrgency ==
    IF ctx.effective_time_to_close < 15 THEN "High"
    ELSE IF ctx.effective_time_to_close < 60 THEN "Medium"
    ELSE "Low"

\* C18: the urgency level of the context is never lower than the base urgency
\* from the effective time to close; a HIGH notes intent always gives High, a
\* MEDIUM intent changes only a base of Low, to Medium, and no intent lowers
\* the urgency.
C18_UrgencyNeverLowered ==
    ContextBuilt
        => LET intent == ctx.notes_intents.urgency_intent
           IN  /\ ctx.urgency_level \in {"Low", "Medium", "High"}
               /\ UrgencyRank(ctx.urgency_level) >= UrgencyRank(BaseUrgency)
               /\ intent = "HIGH" => ctx.urgency_level = "High"
               /\ intent = "MEDIUM"
                    => ctx.urgency_level = IF BaseUrgency = "Low" THEN "Medium"
                                           ELSE BaseUrgency
               /\ intent \notin {"HIGH", "MEDIUM"} => ctx.urgency_level = BaseUrgency

\* a MEDIUM notes intent met a base urgency of High and left it High
C18_Witness ==
    /\ ContextBuilt
    /\ ctx.notes_intents.urgency_intent = "MEDIUM"
    /\ BaseUrgency = "High"
    /\ ctx.urgency_level = "High"

\* the stages after build_algo_parameters
ParamsBuilt == pc \in {"explain", "done"}

\* C19: build_algo_parameters applies client default, notes preference,
\* urgency High, pattern, rule, the last applied winning: the result is the
\* supplied rule aggression, else the supplied pattern aggression, else High
\* when urgency is High, else the notes preference, else the client default
\* (Medium without a client row).
C19_AggressionLastAppliedWins ==
    ParamsBuilt
        => algo.params.aggression_level =
             (IF rule_result.aggression # None THEN rule_result.aggression
              ELSE IF pattern.aggression # None THEN pattern.aggression
              ELSE IF ctx.urgency_level = "High" THEN "High"
              ELSE IF ctx.notes_intents.aggression_preference # None
                   THEN NotesAggression(ctx.notes_intents.aggression_preference)
              ELSE IF ctx.client_profile.found THEN ctx.client_profile.aggression_bias
              ELSE "Medium")

\* the notes of the request hold the keyword "stop" in any letter case
StopNote == Contains(lower(or_empty(request.notes)), "stop")

\* urgency High, liquidity bucket High or Medium, spread at most 0.10
MarketCondition ==
    /\ ctx.urgency_level = "High"
    /\ ctx.liquidity_bucket \in {"High", "Medium"}
    /\ ctx.spread <= 10

\* C20: order_type is the rule override when the rule engine set one, else
\* Stop when the notes contain "stop" (any case), else Market when urgency is
\* High, the liquidity bucket is High or Medium and spread <= 0.10, else
\* Limit; a rule-forced Limit beats a "stop" note and the Market condition.
C20_OrderTypePrecedence ==
    Done => LET ot == response.core_order_fields.order_type
                ro == rule_result.order_type
            IN  /\ ro # None => ot = ro
                /\ (ro = None /\ StopNote) => ot = "Stop"
                /\ (ro = None /\ ~StopNote /\ MarketCondition) => ot = "Market"
                /\ (ro = None /\ ~StopNote /\ ~MarketCondition) => ot = "Limit"

\* a rule-forced Limit on a request with a "Stop" note for which the Market
\* condition holds as well
C20_Witness ==
    /\ Done
    /\ rule_result.order_type = "Limit"
    /\ StopNote
    /\ MarketCondition
    /\ response.core_order_fields.order_type = "Limit"

\* the TIF reason line of a window of w minutes
TifLine(tif, w) == "TIF: " \o tif \o " (" \o ToString(w) \o "m window)"

\* the window minutes a TIF reason line reports
WindowByLine ==
    [l \in {TifLine(t, w) : t \in {"IOC", "DAY"}, w \in 0..240} |->
        CHOOSE w \in 0..240 : \E t \in {"IOC", "DAY"} : TifLine(t, w) = l]

\* the execution window of the request, in minutes
ReportedWindow == WindowByLine[core.reasons[Len(core.reasons)]]

\* the urgency cap of the window
WindowCap ==
    IF ctx.urgency_level = "High" THEN 30
    ELSE IF ctx.urgency_level = "Medium" THEN 90 ELSE 240

\* the stages after build_core_fields
CoreBuilt == pc \in {"params", "explain", "done"}

\* C21 as stated: the window never exceeds the urgency cap nor the effective
\* time to close, and a positive effective time to close never yields a window
\* shorter than 10 minutes.
C21_WindowFlooredAtTen ==
    CoreBuilt => /\ ReportedWindow <= WindowCap
                 /\ ReportedWindow <= ctx.effective_time_to_close
                 /\ ctx.effective_time_to_close > 0 => ReportedWindow >= 10

\* C21 amended: the window is the smaller of the urgency cap and the effective
\* time to close; it is at least 10 minutes whenever the effective time to
\* close is at least 10, and equals the effective time to close below that.
C21_WindowIsMinOfCapAndTime ==
    CoreBuilt => /\ ReportedWindow <= WindowCap
                 /\ ReportedWindow <= ctx.effective_time_to_close
                 /\ ReportedWindow \in {WindowCap, ctx.effective_time_to_close}
                 /\ ctx.effective_time_to_close >= 10 => ReportedWindow >= 10

\* fewer than 10 minutes are left and the window is exactly that long
C21_Witness ==
    /\ CoreBuilt
    /\ ctx.effective_time_to_close \in 1..9
    /\ ReportedWindow = ctx.effective_time_to_close

\* |a - b|
Dist(a, b) == IF a >= b THEN a - b ELSE b - a

\* C22: limit_price is non-null only when order_type is Limit or Stop and a
\* price reference exists, and it is null without a market snapshot; to the
\* cent it is bid + 0.25*spread for a buy, never above ask + spread, and
\* ask - 0.25*spread for a sell, never below bid - spread.
C22_LimitPriceBanded ==
    CoreBuilt
        => LET lp == core.core.limit_price
               m  == ctx.market_snapshot
           IN  /\ IsSome(lp) <=> (core.core.order_type \in {"Limit", "Stop"} /\ m.found)
               /\ (IsSome(lp) /\ request.direction = "Buy")
                    => /\ 2 * Dist(100 * Val(lp), 100 * m.bid + 25 * m.spread) <= 100
                       /\ Val(lp) <= m.ask + m.spread
               /\ (IsSome(lp) /\ request.direction = "Sell")
                    => /\ 2 * Dist(100 * Val(lp), 100 * m.ask - 25 * m.spread) <= 100
                       /\ Val(lp) >= m.bid - m.spread

\* a sell with a limit price where a quarter of the spread is not a whole cent
C22_Witness ==
    /\ CoreBuilt
    /\ request.direction = "Sell"
    /\ IsSome(core.core.limit_price)
    /\ ctx.market_snapshot.spread % 4 # 0

\* which phrases each notes string holds, letter case ignored
NotesPhrases ==
    [n \in NotesSet |->
        LET t == lower(or_empty(n))
        IN  [vwap       |-> \/ Contains(t, "vwap benchmark")
                            \/ Contains(t, "benchmark: vwap")
                            \/ Contains(t, "vwap "),
             arrival    |-> Contains(t, "arrival price"),
             completion |-> \/ Contains(t, "eod compliance required")
                            \/ Contains(t, "must complete"),
             urgent     |-> Contains(t, "urgent"),
             steady     |-> Contains(t, "steady execution"),
             impact     |-> \/ Contains(t, "minimize market impact")
                            \/ Contains(t, "minimise market impact")]]

\* the phrases of the request's notes, in the order the extraction evaluates them
SaysVwapBenchmark == NotesPhrases[request.notes].vwap
SaysArrival == NotesPhrases[request.notes].arrival
SaysCompletion == NotesPhrases[request.notes].completion
SaysUrgent == NotesPhrases[request.notes].urgent
SaysSteady == NotesPhrases[request.notes].steady
SaysImpact == NotesPhrases[request.notes].impact

\* C23 as stated: for benchmark_type, urgency_intent and aggression_preference
\* alike the last evaluated matching phrase gives the final value, a later
\* match overwriting what an earlier match set.
C23_LastMatchWinsPerField ==
    ContextBuilt
        => /\ ctx.notes_intents.benchmark_type =
                 (IF SaysArrival THEN "ARRIVAL"
                  ELSE IF SaysVwapBenchmark THEN "VWAP" ELSE None)
           /\ ctx.notes_intents.urgency_intent =
                 (IF SaysSteady THEN "MEDIUM"
                  ELSE IF SaysCompletion \/ SaysUrgent THEN "HIGH" ELSE None)
           /\ ctx.notes_intents.aggression_preference =
                 (IF SaysSteady THEN "MEDIUM"
                  ELSE IF SaysImpact THEN "LOW" ELSE None)

\* C23 amended: the last matching phrase wins for benchmark_type only (an
\* arrival-price phrase overwrites a VWAP benchmark); urgency_intent and
\* aggression_preference keep the value of the first matching phrase, so
\* "steady execution" sets MEDIUM only where nothing was set before.
C23_BenchmarkLastOthersFirst ==
    ContextBuilt
        => /\ ctx.notes_intents.benchmark_type =
                 (IF SaysArrival THEN "ARRIVAL"
                  ELSE IF SaysVwapBenchmark THEN "VWAP" ELSE None)
           /\ ctx.notes_intents.urgency_intent =
                 (IF SaysCompletion \/ SaysUrgent THEN "HIGH"
                  ELSE IF SaysSteady THEN "MEDIUM" ELSE None)
           /\ ctx.notes_intents.aggression_preference =
                 (IF SaysImpact THEN "LOW"
                  ELSE IF SaysSteady THEN "MEDIUM" ELSE None)

\* notes with an impact phrase and "steady execution": the preference is LOW
C23_Witness ==
    /\ ContextBuilt
    /\ SaysImpact
    /\ SaysSteady
    /\ ctx.notes_intents.aggression_preference = "LOW"

\* the five reason streams of a completed request, concatenated in the order
\* context summary, scoring, parameters, pattern, rules
AllReasons ==
    context_lines(ctx) \o score.reasons \o core.reasons \o algo.reasons
    \o pattern.reasons \o rule_result.reasons

\* the positions of a list that hold a non-empty line not seen earlier in it
FirstOccurrences(seq) ==
    {i \in 1..Len(seq) : seq[i] # "" /\ \A j \in 1..(i - 1) : seq[j] # seq[i]}

\* C24: the explanation list is the concatenation of (1) the size summary,
\* fat-finger warning and intent lines, (2) scoring, (3) parameter, (4)
\* pattern and (5) rule reasons without later duplicates and empty strings:
\* no string occurs twice, the first entry is the size-vs-ADV summary, and
\* the kept lines stand in the order of their first occurrence.
C24_ExplanationsOrderedDeduped ==
    Done
        => LET ex   == response.explanations
               keep == FirstOccurrences(AllReasons)
           IN  /\ Len(ex) = Cardinality(keep)
               /\ \A i \in keep :
                     ex[Cardinality({k \in keep : k <= i})] = AllReasons[i]
               /\ \A i, j \in 1..Len(ex) : i < j => ex[i] # ex[j]
               /\ \A i \in 1..Len(ex) : ex[i] # ""
               /\ ex[1] = "Order size is " \o ToString(size_pct(ctx)) \o "% of ADV"

\* a completed request with lines in all five streams
C24_Witness ==
    /\ Done
    /\ Len(context_lines(ctx)) > 1
    /\ score.reasons # <<>>
    /\ pattern.reasons # <<>>
    /\ rule_result.reasons # <<>>
    /\ Len(response.explanations) > 5

\* the reason lines that report an aggression level with its driver
AggressionLines ==
    {"Aggression: " \o level \o " (" \o driver \o ")" :
        level \in {"Low", "Medium", "High"},
        driver \in {"notes", "urgency", "history", "rule", "client"}}

\* C25: every resolved value emits exactly one reason line; in particular
\* the resolved aggression_level contributes exactly one "Aggression:" line
\* for every combination of client default, notes preference, urgency,
\* pattern aggression and rule aggression.
C25_OneAggressionReason ==
    ParamsBuilt
        => Cardinality({i \in 1..Len(algo.reasons) : algo.reasons[i] \in AggressionLines}) = 1

\* the average trade size build_context passed to the liquidity score
AvgTradeSizeUsed ==
    IF ctx.market_snapshot.found THEN ctx.market_snapshot.last_trade_size ELSE 500

\* C26: every field of ContextFlags equals the Context field the decision
\* stages used; in particular avg_trade_size is the average trade size that
\* went into the liquidity score, also when the market snapshot is absent.
C26_FlagsMirrorContext ==
    Done
        => LET f == response.context_flags
           IN  /\ f.urgency_level = ctx.urgency_level
               /\ f.size_vs_adv * ctx.size_vs_adv.den = ctx.size_vs_adv.num * 100
               /\ f.volatility_bucket = ctx.volatility_bucket
               /\ f.liquidity_bucket = ctx.liquidity_bucket
               /\ f.spread = ctx.spread
               /\ f.intraday_vol = ctx.intraday_vol
               /\ f.liquidity_score = ctx.liquidity_score
               /\ f.liquidity_score
                    = liquidity_score_of(ctx.adv, ctx.spread, AvgTradeSizeUsed)
               /\ f.avg_trade_size = AvgTradeSizeUsed
               /\ f.time_to_close_request = ctx.time_to_close_request
               /\ f.time_to_close_system = ctx.time_to_close_system
               /\ f.effective_time_to_close = ctx.effective_time_to_close
               /\ f.fat_finger_flag = ctx.fat_finger_flag

\* C27: when the context urgency is High the rule engine forces an algo,
\* VWAP by rule 1 and otherwise POV by rule 2 or rule 6; the final algo is
\* that forced algo, so it is VWAP or POV and never ICEBERG, whatever the
\* candidate scores and the pattern hint are.
C27_HighUrgencyForcesAlgo ==
    (Done /\ ctx.urgency_level = "High")
        => /\ rule_result.algo = (IF Rule1(ctx) THEN "VWAP" ELSE "POV")
           /\ score.chosen = rule_result.algo
           /\ response.core_order_fields.algo_type = rule_result.algo
           /\ response.core_order_fields.algo_type \in {"VWAP", "POV"}

\* a High-urgency request whose history hints at ICEBERG and whose forced
\* algo is not the best-scoring candidate
C27_Witness ==
    /\ Done
    /\ ctx.urgency_level = "High"
    /\ pattern.algo = "ICEBERG"
    /\ best_algo_of(scores) # response.core_order_fields.algo_type

\* the instrument of the request has no row in the instruments table
UnknownInstrument == ~ctx.instrument_profile.found

\* C28: for an unknown instrument ADV falls back to 1, size-vs-ADV equals
\* the order size and exceeds 0.25 for every valid request, so rule 4 fires
\* and the final order_type is Limit, never Market or Stop, whatever the
\* notes and the urgency.
C28_UnknownInstrumentIsLimit ==
    (Done /\ UnknownInstrument)
        => /\ ctx.adv = 1
           /\ ctx.size_vs_adv.num = request.order_size * ctx.size_vs_adv.den
           /\ FracGt(ctx.size_vs_adv, 25, 100)
           /\ rule_result.order_type = "Limit"
           /\ response.core_order_fields.order_type = "Limit"

\* the smallest valid order in an unknown instrument, with the Market
\* condition holding
C28_Witness ==
    /\ Done
    /\ UnknownInstrument
    /\ request.order_size = 1
    /\ MarketCondition

\* C29: in the returned AlgoParameters only the fields of the chosen algo
\* are set: participation_rate, min_clip_size and max_clip_size exactly for
\* POV, volume_curve and max_volume_pct exactly for VWAP, display_quantity
\* exactly for ICEBERG; aggression_level is always set.
C29_OnlyChosenAlgoFields ==
    Done
        => LET p == response.algo_parameters
               a == response.core_order_fields.algo_type
           IN  /\ (p.participation_rate # Nothing) = (a = "POV")
               /\ (p.min_clip_size # Nothing) = (a = "POV")
               /\ (p.max_clip_size # Nothing) = (a = "POV")
               /\ (p.volume_curve # None) = (a = "VWAP")
               /\ (p.max_volume_pct # Nothing) = (a = "VWAP")
               /\ (p.display_quantity # Nothing) = (a = "ICEBERG")
               /\ p.aggression_level \in {"Low", "Medium", "High"}

\* an ICEBERG answer carrying its display quantity and nothing of POV or VWAP
C29_Witness ==
    /\ Done
    /\ response.core_order_fields.algo_type = "ICEBERG"
    /\ response.algo_parameters.display_quantity # Nothing
    /\ response.algo_parameters.participation_rate = Nothing
    /\ response.algo_parameters.volume_curve = None

\* the lines of a list, as a set
LinesOf(seq) == {seq[i] : i \in 1..Len(seq)}

\* C30: the aggression_preference extracted from the notes is LOW, MEDIUM or
\* none and never HIGH; so no run takes the "Aggression: High (notes)" branch
\* and no run applies the scoring bump for a HIGH aggression preference.
C30_NotesNeverPreferHigh ==
    /\ ContextBuilt => ctx.notes_intents.aggression_preference \in {"LOW", "MEDIUM", None}
    /\ Scored => "Notes prefer higher aggression; POV prioritized" \notin LinesOf(score.reasons)
    /\ ParamsBuilt => "Aggression: High (notes)" \notin LinesOf(algo.reasons)
    /\ Done => /\ "Aggression: High (notes)" \notin LinesOf(response.explanations)
               /\ "Notes prefer higher aggression; POV prioritized"
                    \notin LinesOf(response.explanations)

\* an urgent note answered with POV at High aggression, the level coming from
\* the urgency and not from a notes preference
C30_Witness ==
    /\ Done
    /\ SaysUrgent
    /\ ctx.notes_intents.aggression_preference = None
    /\ response.core_order_fields.algo_type = "POV"
    /\ response.algo_parameters.aggression_level = "High"

====
